---- MODULE Spec2Model ----
(***************************************************************************)
(* A model of the dispatch engine of the HTTP server: the route pattern    *)
(* matcher and the router (src/router.rs), the service builder and the     *)
(* middleware layers (src/service.rs, src/middleware.rs), the request      *)
(* parser (src/http.rs) and the accept loop with its per-connection        *)
(* worker (src/server.rs).                                                 *)
(*                                                                         *)
(* Bytes and characters are one-character strings; a byte string is a      *)
(* sequence of them.  CR and LF stand for the bytes 13 and 10.             *)
(***************************************************************************)
EXTENDS Integers, Sequences, FiniteSets, TLC

CR == "\\r"
LF == "\\n"

(***************************************************************************)
(* Text helpers: the std library calls the sources use.                    *)
(***************************************************************************)

\* Position of the first occurrence of the character d in s, 0 when absent.
RECURSIVE IndexOf(_, _)
IndexOf(s, d) ==
    IF s = <<>> THEN 0
    ELSE IF Head(s) = d THEN 1
    ELSE LET r == IndexOf(Tail(s), d) IN IF r = 0 THEN 0 ELSE r + 1

\* str::split(d): the pieces between occurrences of d, empty pieces kept.
RECURSIVE SplitOn(_, _)
SplitOn(s, d) ==
    LET i == IndexOf(s, d) IN
    IF i = 0 THEN <<s>>
    ELSE <<SubSeq(s, 1, i - 1)>> \o SplitOn(SubSeq(s, i + 1, Len(s)), d)

\* .filter(|segment| !segment.is_empty())
NonEmptySegments(parts) == SelectSeq(parts, LAMBDA t : Len(t) > 0)

\* HashMap::new() and HashMap::insert (last write wins).
EmptyMap == [k \in {} |-> <<>>]

Insert(m, k, v) == [x \in (DOMAIN m) \cup {k} |-> IF x = k THEN v ELSE m[x]]

(***************************************************************************)
(* Route patterns (src/router.rs).                                         *)
(***************************************************************************)

Exact(s) == [kind |-> "Exact", val |-> s]

Param(s) == [kind |-> "Param", val |-> s]

Wildcard == [kind |-> "Wildcard", val |-> <<>>]

\* The classification of one non-empty pattern segment.
PathSegment(segment) ==
    IF segment = <<"*">> THEN Wildcard
    ELSE IF Head(segment) = ":" THEN Param(Tail(segment))
    ELSE Exact(segment)

\* RoutePattern::new: the segments of a pattern string.
RoutePattern_new(pattern) ==
    LET segs == NonEmptySegments(SplitOn(pattern, "/"))
    IN  [i \in 1..Len(segs) |-> PathSegment(segs[i])]

HasWildcard(segments) == \E i \in 1..Len(segments) : segments[i].kind = "Wildcard"

None == [ok |-> FALSE, params |-> EmptyMap]

Some(params) == [ok |-> TRUE, params |-> params]

\* A loop in which a Param segment consumes its path segment without
\* recording it.
RECURSIVE MatchFrom_no_capture(_, _, _, _, _)
MatchFrom_no_capture(segments, path_segments, i, path_index, params) ==
    IF i > Len(segments)
    THEN IF path_index = Len(path_segments) THEN Some(params) ELSE None
    ELSE LET segment == segments[i] IN
         CASE segment.kind = "Exact" ->
                IF path_index >= Len(path_segments)
                   \/ path_segments[path_index + 1] # segment.val
                THEN None
                ELSE MatchFrom_no_capture(segments, path_segments, i + 1,
                                          path_index + 1, params)
           [] segment.kind = "Param" ->
                IF path_index >= Len(path_segments)
                THEN None
                ELSE MatchFrom_no_capture(segments, path_segments, i + 1,
                                          path_index + 1, params)
           [] OTHER -> Some(params)

\* A loop in which the wildcard stands for exactly one path segment.
RECURSIVE MatchFrom_one_segment(_, _, _, _, _)
MatchFrom_one_segment(segments, path_segments, i, path_index, params) ==
    IF i > Len(segments)
    THEN IF path_index = Len(path_segments) THEN Some(params) ELSE None
    ELSE LET segment == segments[i] IN
         CASE segment.kind = "Exact" ->
                IF path_index >= Len(path_segments)
                   \/ path_segments[path_index + 1] # segment.val
                THEN None
                ELSE MatchFrom_one_segment(segments, path_segments, i + 1,
                                           path_index + 1, params)
           [] segment.kind = "Param" ->
                IF path_index >= Len(path_segments)
                THEN None
                ELSE MatchFrom_one_segment(segments, path_segments, i + 1, path_index + 1,
                         Insert(params, segment.val, path_segments[path_index + 1]))
           [] OTHER ->
                IF path_index + 1 = Len(path_segments) THEN Some(params) ELSE None

\* The loop of RoutePattern::matches from pattern segment i on, with
\* path_index and the captures so far.
RECURSIVE MatchFrom(_, _, _, _, _)
MatchFrom(segments, path_segments, i, path_index, params) ==
    IF i > Len(segments)
    THEN IF path_index = Len(path_segments) THEN Some(params) ELSE None
    ELSE LET segment == segments[i] IN
         CASE segment.kind = "Exact" ->
                IF path_index >= Len(path_segments)
                   \/ path_segments[path_index + 1] # segment.val
                THEN None
                ELSE MatchFrom(segments, path_segments, i + 1, path_index + 1, params)
           [] segment.kind = "Param" ->
                IF path_index >= Len(path_segments)
                THEN None
                ELSE MatchFrom(segments, path_segments, i + 1, path_index + 1,
                               Insert(params, segment.val, path_segments[path_index + 1]))
           [] OTHER -> Some(params)

\* A matcher that takes the pattern as a prefix: path segments beyond the
\* pattern's length are not looked at.
matches_prefix(segments, path) ==
    LET path_segments == NonEmptySegments(SplitOn(path, "/"))
        n == IF Len(path_segments) > Len(segments) THEN Len(segments)
             ELSE Len(path_segments)
    IN  MatchFrom(segments, SubSeq(path_segments, 1, n), 1, 0, EmptyMap)

\* RoutePattern::matches(&self, path).
matches(segments, path) ==
    LET path_segments == NonEmptySegments(SplitOn(path, "/")) IN
    IF Len(path_segments) # Len(segments) /\ ~HasWildcard(segments)
    THEN None
    ELSE MatchFrom(segments, path_segments, 1, 0, EmptyMap)

(***************************************************************************)
(* Responses (src/http/response.rs, src/http/mod.rs; src/http.rs holds the  *)
(* same code).                                                             *)
(***************************************************************************)

\* The header names and values the sources write as literals.
Str_Server ==
    <<"S", "e", "r", "v", "e", "r">>

Str_RustHTTP ==
    <<"R", "u", "s", "t", "H", "T", "T", "P", "/", "0", ".", "1">>

Str_Date ==
    <<"D", "a", "t", "e">>

Str_Content_Length ==
    <<"C", "o", "n", "t", "e", "n", "t", "-", "L", "e", "n", "g", "t", "h">>

Str_Content_Type ==
    <<"C", "o", "n", "t", "e", "n", "t", "-", "T", "y", "p", "e">>

Str_text_html ==
    <<"t", "e", "x", "t", "/", "h", "t", "m", "l">>

Str_text_plain ==
    <<"t", "e", "x", "t", "/", "p", "l", "a", "i", "n">>

Str_Allow_Origin ==
    <<"A", "c", "c", "e", "s", "s", "-", "C", "o", "n", "t", "r", "o", "l",
      "-", "A", "l", "l", "o", "w", "-", "O", "r", "i", "g", "i", "n">>

Str_star ==
    <<"*">>

Str_Allow_Methods ==
    <<"A", "c", "c", "e", "s", "s", "-", "C", "o", "n", "t", "r", "o", "l",
      "-", "A", "l", "l", "o", "w", "-", "M", "e", "t", "h", "o", "d", "s">>

Str_methods ==
    <<"G", "E", "T", ",", " ", "P", "O", "S", "T", ",", " ", "P", "U", "T",
      ",", " ", "D", "E", "L", "E", "T", "E", ",", " ", "O", "P", "T", "I",
      "O", "N", "S">>

Str_Allow_Headers ==
    <<"A", "c", "c", "e", "s", "s", "-", "C", "o", "n", "t", "r", "o", "l",
      "-", "A", "l", "l", "o", "w", "-", "H", "e", "a", "d", "e", "r", "s">>

Str_headers ==
    <<"C", "o", "n", "t", "e", "n", "t", "-", "T", "y", "p", "e", ",", " ",
      "A", "u", "t", "h", "o", "r", "i", "z", "a", "t", "i", "o", "n">>

\* The Date value: the clock's reading when the response is created,
\* formatted "%a, %d %b %Y %H:%M:%S GMT".
Str_now ==
    <<"T", "h", "u", ",", " ", "0", "1", " ", "J", "a", "n", " ", "1", "9",
      "7", "0", " ", "0", "0", ":", "0", "0", ":", "0", "0", " ", "G", "M",
      "T">>

\* enum StatusCode: the numeric codes.
StatusCodes == {200, 201, 202, 204, 400, 401, 403, 404, 405, 500, 501, 502, 503}

\* StatusCode::reason_phrase
reason_phrase(status_code) ==
    CASE status_code = 200 ->
            <<"O", "K">>
      [] status_code = 201 ->
            <<"C", "r", "e", "a", "t", "e", "d">>
      [] status_code = 202 ->
            <<"A", "c", "c", "e", "p", "t", "e", "d">>
      [] status_code = 204 ->
            <<"N", "o", " ", "C", "o", "n", "t", "e", "n", "t">>
      [] status_code = 400 ->
            <<"B", "a", "d", " ", "R", "e", "q", "u", "e", "s",
              "t">>
      [] status_code = 401 ->
            <<"U", "n", "a", "u", "t", "h", "o", "r", "i", "z", "e",
              "d">>
      [] status_code = 403 ->
            <<"F", "o", "r", "b", "i", "d", "d", "e", "n">>
      [] status_code = 404 ->
            <<"N", "o", "t", " ", "F", "o", "u", "n", "d">>
      [] status_code = 405 ->
            <<"M", "e", "t", "h", "o", "d", " ", "N", "o", "t", " ",
              "A", "l", "l", "o", "w", "e", "d">>
      [] status_code = 500 ->
            <<"I", "n", "t", "e", "r", "n", "a", "l", " ", "S", "e",
              "r", "v", "e", "r", " ", "E", "r", "r", "o", "r">>
      [] status_code = 501 ->
            <<"N", "o", "t", " ", "I", "m", "p", "l", "e", "m", "e",
              "n", "t", "e", "d">>
      [] status_code = 502 ->
            <<"B", "a", "d", " ", "G", "a", "t", "e", "w", "a",
              "y">>
      [] OTHER ->
            <<"S", "e", "r", "v", "i", "c", "e", " ", "U", "n", "a",
              "v", "a", "i", "l", "a", "b", "l", "e">>

\* impl Display for Version
Version_fmt(version) ==
    CASE version = "HTTP/1.0" -> <<"H", "T", "T", "P", "/", "1", ".", "0">>
      [] version = "HTTP/1.1" -> <<"H", "T", "T", "P", "/", "1", ".", "1">>
      [] version = "HTTP/2.0" -> <<"H", "T", "T", "P", "/", "2", ".", "0">>
      [] OTHER -> <<"U", "N", "K", "N", "O", "W", "N">>

\* usize::to_string and `as u16` formatted with {}: the decimal digits.
RECURSIVE to_string(_)
to_string(n) ==
    LET digit == <<"0", "1", "2", "3", "4", "5", "6", "7", "8", "9">>[(n % 10) + 1]
    IN  IF n < 10 THEN <<digit>> ELSE to_string(n \div 10) \o <<digit>>

\* Response::new(status_code): version 1.1, the Server and Date headers,
\* an empty body.
Response_new(status_code) ==
    [version |-> "HTTP/1.1", status_code |-> status_code,
     headers |-> Insert(Insert(EmptyMap, Str_Server, Str_RustHTTP), Str_Date, Str_now),
     body |-> <<>>]

\* A set_body that writes the length of the body it replaces.
set_body_stale_length(response, body) ==
    [response EXCEPT !.body = body,
                     !.headers = Insert(@, Str_Content_Length,
                                        to_string(Len(response.body)))]

\* Response::set_body
set_body(response, body) ==
    [response EXCEPT !.body = body,
                     !.headers = Insert(@, Str_Content_Length, to_string(Len(body)))]

\* Response::set_content_type
set_content_type(response, content_type) ==
    [response EXCEPT !.headers = Insert(@, Str_Content_Type, content_type)]

\* A CORS layer that answers with its three headers and no others.
cors_headers_only(response) ==
    [response EXCEPT !.headers =
        Insert(Insert(Insert(EmptyMap, Str_Allow_Origin, Str_star),
                      Str_Allow_Methods, Str_methods),
               Str_Allow_Headers, Str_headers)]

\* The header insertions of CorsMiddleware::call.
cors_headers(response) ==
    [response EXCEPT !.headers =
        Insert(Insert(Insert(@, Str_Allow_Origin, Str_star),
                      Str_Allow_Methods, Str_methods),
               Str_Allow_Headers, Str_headers)]

\* The loop `for (key, value) in &self.headers` of to_bytes, visiting the
\* keys in `order`.
RECURSIVE HeaderBytes(_, _, _)
HeaderBytes(headers, order, i) ==
    IF i > Len(order) THEN <<>>
    ELSE order[i] \o <<":", " ">> \o headers[order[i]] \o <<CR, LF>>
         \o HeaderBytes(headers, order, i + 1)

\* A to_bytes whose status line ends after the numeric code.
to_bytes_code_only(response, order) ==
    Version_fmt(response.version) \o <<" ">> \o to_string(response.status_code)
    \o <<CR, LF>>
    \o HeaderBytes(response.headers, order, 1)
    \o <<CR, LF>>
    \o response.body

\* Response::to_bytes: the status line, the header lines, an empty line,
\* the body.  A HashMap is iterated in an order of its own; `order` is the
\* order this call meets.
to_bytes(response, order) ==
    Version_fmt(response.version) \o <<" ">> \o to_string(response.status_code)
    \o <<" ">> \o reason_phrase(response.status_code) \o <<CR, LF>>
    \o HeaderBytes(response.headers, order, 1)
    \o <<CR, LF>>
    \o response.body

\* b"Bad Request"
BadRequestBody ==
    <<"B", "a", "d", " ", "R", "e", "q", "u", "e", "s", "t">>

\* b"<html><body><h1>404 - Not Found</h1></body></html>"
NotFoundBody ==
    <<"<", "h", "t", "m", "l", ">", "<", "b", "o", "d", "y",
      ">", "<", "h", "1", ">", "4", "0", "4", " ", "-",
      " ", "N", "o", "t", " ", "F", "o", "u", "n", "d",
      "<", "/", "h", "1", ">", "<", "/", "b", "o", "d",
      "y", ">", "<", "/", "h", "t", "m", "l", ">">>

\* The 400 response handle_client synthesizes.
BadRequestResponse ==
    set_body(set_content_type(Response_new(400), Str_text_plain), BadRequestBody)

\* The 404 response handle_client synthesizes.
NotFoundResponse ==
    set_body(set_content_type(Response_new(404), Str_text_html), NotFoundBody)

(***************************************************************************)
(* Requests and handlers.                                                  *)
(***************************************************************************)

\* The strings the sources write as literals.
Str_x == <<"/", "x">>

Str_id == <<"/", ":", "i", "d">>

Str_x_star == <<"/", "x", "/", "*">>

Str_x_y == <<"/", "x", "/", "y">>

Str_z == <<"/", "z">>

Str_root == <<"/">>

\* Option<Method>: a method filter, or none.
NoMethod == "None"

\* struct Request (src/http.rs).
Request(method, path, params) ==
    [method |-> method, path |-> path, version |-> "HTTP/1.1",
     headers |-> EmptyMap, body |-> <<>>, params |-> params, query |-> EmptyMap]

\* A handler is an opaque function Request -> Result<Response, String>; it
\* is identified by where it was registered.
RouteHandler(n) == [kind |-> "route", id |-> n]

NotFoundHandler(n) == [kind |-> "not_found", id |-> n]

\* The handler Router::new installs for requests no route takes.
DefaultNotFoundHandler == NotFoundHandler(0)

\* The response an (opaque) handler returns when it succeeds.  The third
\* handler answers 201 and sets an Access-Control-Allow-Origin of its own.
HandlerResponse(h) ==
    IF h.id = 3
    THEN [set_body(Response_new(201), <<"3">>) EXCEPT
             !.headers = Insert(@, Str_Allow_Origin, <<"3">>)]
    ELSE set_body(Response_new(200), IF h.id = 1 THEN <<"1">> ELSE <<"2">>)

\* A default handler that answers with an empty 200 response.
HandlerResult_default_ok(h, ok) ==
    IF h = DefaultNotFoundHandler
    THEN [ok |-> TRUE, by |-> h, response |-> <<Response_new(200)>>]
    ELSE IF ok THEN [ok |-> TRUE, by |-> h, response |-> <<HandlerResponse(h)>>]
    ELSE [ok |-> FALSE, by |-> h, response |-> <<>>]

\* What awaiting the handler h gives: Ok(response) or Err.  The default
\* not-found handler always gives Ok with the canned 404 page; any other
\* handler is opaque and succeeds or fails as the environment (ok) lets it.
HandlerResult(h, ok) ==
    IF h = DefaultNotFoundHandler
    THEN [ok |-> TRUE, by |-> h, response |-> <<NotFoundResponse>>]
    ELSE IF ok THEN [ok |-> TRUE, by |-> h, response |-> <<HandlerResponse(h)>>]
    ELSE [ok |-> FALSE, by |-> h, response |-> <<>>]

(***************************************************************************)
(* Router (src/router.rs).                                                 *)
(***************************************************************************)

\* Router::new: no routes, the default 404 handler.
Router_new == [routes |-> <<>>, not_found_handler |-> DefaultNotFoundHandler]

\* A router that puts the newest route in front of the older ones.
route_prepend(r, pattern, method, handler) ==
    [r EXCEPT !.routes = <<[pattern |-> RoutePattern_new(pattern),
                            method |-> method,
                            handler |-> handler]>> \o @]

\* Router::route: append (pattern, method, handler).
route(r, pattern, method, handler) ==
    [r EXCEPT !.routes = Append(@, [pattern |-> RoutePattern_new(pattern),
                                     method |-> method,
                                     handler |-> handler])]

\* Router::get
get(r, pattern, handler) == route(r, pattern, "GET", handler)

\* Router::post
post(r, pattern, handler) == route(r, pattern, "POST", handler)

\* Router::set_not_found_handler
set_not_found_handler(r, handler) == [r EXCEPT !.not_found_handler = handler]

\* A router that never looks at the method filter.
MethodSkips_never(rt, req) == FALSE

\* `if let Some(method) = &route.method { if &req.method != method { continue } }`
MethodSkips(rt, req) == rt.method # NoMethod /\ req.method # rt.method

\* A router in which a later registration overrides an earlier one: the
\* last matching route from i on.
RECURSIVE FirstMatch_last(_, _, _)
FirstMatch_last(routes, req, i) ==
    IF i > Len(routes) THEN 0
    ELSE LET later == FirstMatch_last(routes, req, i + 1) IN
         IF later # 0 THEN later
         ELSE IF ~MethodSkips(routes[i], req) /\ matches(routes[i].pattern, req.path).ok
         THEN i
         ELSE 0

\* The scan of Router::handle from route i on: the index of the route whose
\* handler is invoked, 0 when the scan ends without a match.
RECURSIVE FirstMatch(_, _, _)
FirstMatch(routes, req, i) ==
    IF i > Len(routes) THEN 0
    ELSE IF MethodSkips(routes[i], req) THEN FirstMatch(routes, req, i + 1)
    ELSE IF matches(routes[i].pattern, req.path).ok THEN i
    ELSE FirstMatch(routes, req, i + 1)

\* HashMap::extend: the entries of b added to a, b's value winning.
Merge(a, b) ==
    [k \in (DOMAIN a) \cup (DOMAIN b) |-> IF k \in DOMAIN b THEN b[k] ELSE a[k]]

\* A router that falls through to the not-found handler when the matched
\* handler fails.
handle_fall_through(r, req, ok) ==
    LET i == FirstMatch(r.routes, req, 1) IN
    IF i # 0
    THEN LET params == matches(r.routes[i].pattern, req.path).params
             req2 == [req EXCEPT !.params = params]
         IN  IF ok
             THEN [invoked |-> <<[handler |-> r.routes[i].handler, request |-> req2]>>,
                   result |-> HandlerResult(r.routes[i].handler, ok)]
             ELSE [invoked |-> <<[handler |-> r.routes[i].handler, request |-> req2],
                                 [handler |-> r.not_found_handler, request |-> req]>>,
                   result |-> HandlerResult(r.not_found_handler, ok)]
    ELSE [invoked |-> <<[handler |-> r.not_found_handler, request |-> req]>>,
          result |-> HandlerResult(r.not_found_handler, ok)]

\* A router that adds the captured parameters to those the request already
\* carries.
handle_merge_params(r, req, ok) ==
    LET i == FirstMatch(r.routes, req, 1) IN
    IF i # 0
    THEN LET params == matches(r.routes[i].pattern, req.path).params
             req2 == [req EXCEPT !.params = Merge(@, params)]
         IN  [invoked |-> <<[handler |-> r.routes[i].handler, request |-> req2]>>,
              result |-> HandlerResult(r.routes[i].handler, ok)]
    ELSE [invoked |-> <<[handler |-> r.not_found_handler, request |-> req]>>,
          result |-> HandlerResult(r.not_found_handler, ok)]

\* A router that hands the not-found handler a request with its
\* path-parameter map reset.
handle_reset_params(r, req, ok) ==
    LET i == FirstMatch(r.routes, req, 1) IN
    IF i # 0
    THEN LET params == matches(r.routes[i].pattern, req.path).params
             req2 == [req EXCEPT !.params = params]
         IN  [invoked |-> <<[handler |-> r.routes[i].handler, request |-> req2]>>,
              result |-> HandlerResult(r.routes[i].handler, ok)]
    ELSE [invoked |-> <<[handler |-> r.not_found_handler,
                         request |-> [req EXCEPT !.params = EmptyMap]]>>,
          result |-> HandlerResult(r.not_found_handler, ok)]

\* A router that sends every request with a query string to the not-found
\* handler.
handle_query_aware(r, req, ok) ==
    LET i == IF req.query # EmptyMap THEN 0 ELSE FirstMatch(r.routes, req, 1) IN
    IF i # 0
    THEN LET params == matches(r.routes[i].pattern, req.path).params
             req2 == [req EXCEPT !.params = params]
         IN  [invoked |-> <<[handler |-> r.routes[i].handler, request |-> req2]>>,
              result |-> HandlerResult(r.routes[i].handler, ok)]
    ELSE [invoked |-> <<[handler |-> r.not_found_handler, request |-> req]>>,
          result |-> HandlerResult(r.not_found_handler, ok)]

\* Router::handle(&self, req): the handler invocations it makes, in order,
\* each with the request it passes, and the result it returns.  ok says
\* whether the environment lets the invoked handler succeed.
handle(r, req, ok) ==
    LET i == FirstMatch(r.routes, req, 1) IN
    IF i # 0
    THEN LET params == matches(r.routes[i].pattern, req.path).params
             req2 == [req EXCEPT !.params = params]
         IN  [invoked |-> <<[handler |-> r.routes[i].handler, request |-> req2]>>,
              result |-> HandlerResult(r.routes[i].handler, ok)]
    ELSE [invoked |-> <<[handler |-> r.not_found_handler, request |-> req]>>,
          result |-> HandlerResult(r.not_found_handler, ok)]

(***************************************************************************)
(* The request parser (Request::parse, src/http.rs), which the connection  *)
(* worker calls.                                                           *)
(***************************************************************************)

\* char::is_whitespace, on the characters of the model.
Whitespace == {" ", "\t", CR, LF}

\* Position of the first "\r\n\r\n" in s, 0 when absent.
RECURSIVE FindTerminator(_, _)
FindTerminator(s, i) ==
    IF i + 3 > Len(s) THEN 0
    ELSE IF SubSeq(s, i, i + 3) = <<CR, LF, CR, LF>> THEN i
    ELSE FindTerminator(s, i + 1)

\* request_data.windows(4).any(|window| window == b"\r\n\r\n")
HasTerminator(s) == FindTerminator(s, 1) # 0

\* str::split("\r\n\r\n"): the pieces between the separators.
RECURSIVE SplitOnTerminator(_)
SplitOnTerminator(s) ==
    LET i == FindTerminator(s, 1) IN
    IF i = 0 THEN <<s>>
    ELSE <<SubSeq(s, 1, i - 1)>> \o SplitOnTerminator(SubSeq(s, i + 4, Len(s)))

StripCR(line) ==
    IF Len(line) > 0 /\ line[Len(line)] = CR THEN SubSeq(line, 1, Len(line) - 1)
    ELSE line

\* str::lines: split after each "\n"; a line that ended in "\n" loses it
\* and one "\r" before it; an empty last piece is no line.
Lines(s) ==
    LET pieces == SplitOn(s, LF)
        n == Len(pieces)
        terminated == [i \in 1..(n - 1) |-> StripCR(pieces[i])]
    IN  IF Len(pieces[n]) = 0 THEN terminated ELSE Append(terminated, pieces[n])

\* str::split_whitespace: the maximal runs of non-whitespace characters.
RECURSIVE SplitWhitespace(_)
SplitWhitespace(s) ==
    IF s = <<>> THEN <<>>
    ELSE IF Head(s) \in Whitespace THEN SplitWhitespace(Tail(s))
    ELSE LET rest == SplitWhitespace(Tail(s)) IN
         IF Len(s) > 1 /\ s[2] \notin Whitespace
         THEN <<<<Head(s)>> \o Head(rest)>> \o Tail(rest)
         ELSE <<<<Head(s)>>>> \o rest

RECURSIVE TrimStart(_)
TrimStart(s) ==
    IF s # <<>> /\ Head(s) \in Whitespace THEN TrimStart(Tail(s)) ELSE s

RECURSIVE TrimEnd(_)
TrimEnd(s) ==
    IF s # <<>> /\ s[Len(s)] \in Whitespace THEN TrimEnd(SubSeq(s, 1, Len(s) - 1)) ELSE s

\* str::trim
Trim(s) == TrimEnd(TrimStart(s))

\* char::to_uppercase on the letters of the model: the lower-case letters of
\* the nine method names and x.
UpperChar(ch) ==
    CASE ch = "a" -> "A" [] ch = "c" -> "C" [] ch = "d" -> "D" [] ch = "e" -> "E"
      [] ch = "g" -> "G" [] ch = "h" -> "H" [] ch = "i" -> "I" [] ch = "l" -> "L"
      [] ch = "n" -> "N" [] ch = "o" -> "O" [] ch = "p" -> "P" [] ch = "r" -> "R"
      [] ch = "s" -> "S" [] ch = "t" -> "T" [] ch = "u" -> "U" [] ch = "x" -> "X"
      [] OTHER -> ch

to_uppercase(s) == [i \in 1..Len(s) |-> UpperChar(s[i])]

\* The names `impl From<&str> for Method` accepts.
MethodNames ==
    {<<"G", "E", "T">>, <<"P", "O", "S", "T">>, <<"P", "U", "T">>,
     <<"D", "E", "L", "E", "T", "E">>, <<"H", "E", "A", "D">>,
     <<"C", "O", "N", "N", "E", "C", "T">>,
     <<"O", "P", "T", "I", "O", "N", "S">>, <<"T", "R", "A", "C", "E">>,
     <<"P", "A", "T", "C", "H">>}

MethodOf(name) ==
    CASE name = <<"G", "E", "T">> -> "GET"
      [] name = <<"P", "O", "S", "T">> -> "POST"
      [] name = <<"P", "U", "T">> -> "PUT"
      [] name = <<"D", "E", "L", "E", "T", "E">> -> "DELETE"
      [] name = <<"H", "E", "A", "D">> -> "HEAD"
      [] name = <<"C", "O", "N", "N", "E", "C", "T">> -> "CONNECT"
      [] name = <<"O", "P", "T", "I", "O", "N", "S">> -> "OPTIONS"
      [] name = <<"T", "R", "A", "C", "E">> -> "TRACE"
      [] OTHER -> "PATCH"

\* A conversion that takes an unknown name for GET.
Method_from_lenient(s) ==
    IF to_uppercase(s) \in MethodNames
    THEN [panic |-> FALSE, method |-> MethodOf(to_uppercase(s))]
    ELSE [panic |-> FALSE, method |-> "GET"]

\* Method::from(s): a Method, or the panic "Invalid method".
Method_from(s) ==
    IF to_uppercase(s) \in MethodNames
    THEN [panic |-> FALSE, method |-> MethodOf(to_uppercase(s))]
    ELSE [panic |-> TRUE, method |-> "Invalid method"]

\* Version::from(s)
Version_from(s) ==
    CASE s = <<"H", "T", "T", "P", "/", "1", ".", "0">> -> "HTTP/1.0"
      [] s = <<"H", "T", "T", "P", "/", "1", ".", "1">> -> "HTTP/1.1"
      [] s = <<"H", "T", "T", "P", "/", "2", ".", "0">> -> "HTTP/2.0"
      [] OTHER -> "UNKNOWN"

\* The loop over query_str.split('&').
RECURSIVE QueryPairs(_, _, _)
QueryPairs(pairs, i, query) ==
    IF i > Len(pairs) THEN query
    ELSE LET pair == pairs[i]
             eq_idx == IndexOf(pair, "=")
         IN  IF eq_idx # 0
             THEN QueryPairs(pairs, i + 1,
                             Insert(query, SubSeq(pair, 1, eq_idx - 1),
                                    SubSeq(pair, eq_idx + 1, Len(pair))))
             ELSE IF Len(pair) > 0
             THEN QueryPairs(pairs, i + 1, Insert(query, pair, <<>>))
             ELSE QueryPairs(pairs, i + 1, query)

\* The loop over the header lines.
RECURSIVE HeaderLines(_, _, _)
HeaderLines(lines, i, headers) ==
    IF i > Len(lines) THEN headers
    ELSE LET line == lines[i]
             colon_pos == IndexOf(line, ":")
         IN  IF colon_pos # 0
             THEN HeaderLines(lines, i + 1,
                              Insert(headers, Trim(SubSeq(line, 1, colon_pos - 1)),
                                     Trim(SubSeq(line, colon_pos + 1, Len(line)))))
             ELSE HeaderLines(lines, i + 1, headers)

ParseErr(msg) == [tag |-> "Err", error |-> msg, request |-> <<>>]

ParsePanic(msg) == [tag |-> "Panic", error |-> msg, request |-> <<>>]

ParseOk(req) == [tag |-> "Ok", error |-> "", request |-> <<req>>]

\* Request::parse(raw): Ok(Request), Err(message), or a panic out of
\* Method::from.
parse(raw) ==
    LET parts == SplitOnTerminator(raw)
        headers_part == parts[1]
        body_part == IF Len(parts) > 1 THEN parts[2] ELSE <<>>
        lines == Lines(headers_part)
    IN  IF Len(lines) = 0 THEN ParseErr("Missing request line")
        ELSE
        LET request_parts == SplitWhitespace(lines[1]) IN
        IF Len(request_parts) < 1 THEN ParseErr("Missing method")
        ELSE IF Len(request_parts) < 2 THEN ParseErr("Missing path")
        ELSE IF Len(request_parts) < 3 THEN ParseErr("Missing HTTP version")
        ELSE
        LET path_with_query == request_parts[2]
            q_idx == IndexOf(path_with_query, "?")
            path == IF q_idx # 0 THEN SubSeq(path_with_query, 1, q_idx - 1)
                    ELSE path_with_query
            query == IF q_idx # 0
                     THEN QueryPairs(SplitOn(SubSeq(path_with_query, q_idx + 1,
                                                    Len(path_with_query)), "&"),
                                     1, EmptyMap)
                     ELSE EmptyMap
            headers == HeaderLines(Tail(lines), 1, EmptyMap)
            method == Method_from(request_parts[1])
        IN  IF method.panic THEN ParsePanic(method.method)
            ELSE ParseOk([method |-> method.method, path |-> path,
                          version |-> Version_from(request_parts[3]),
                          headers |-> headers, body |-> body_part,
                          params |-> EmptyMap, query |-> query])

(***************************************************************************)
(* The free function parse of src/http/parser.rs: the same steps, with     *)
(* splitn(2, ..) where Request::parse has split, and its own query loop.   *)
(***************************************************************************)

\* str::splitn(2, "\r\n\r\n"): the piece before the first separator and,
\* when there is one, all that follows it.
SplitNOnTerminator(s) ==
    LET i == FindTerminator(s, 1) IN
    IF i = 0 THEN <<s>>
    ELSE <<SubSeq(s, 1, i - 1), SubSeq(s, i + 4, Len(s))>>

\* query_str.split('&').filter_map(..).collect(): every pair gives an entry,
\* the empty pair the entry ("", "").
RECURSIVE parser_query(_, _, _)
parser_query(pairs, i, query) ==
    IF i > Len(pairs) THEN query
    ELSE LET pair == pairs[i]
             eq_idx == IndexOf(pair, "=")
         IN  IF eq_idx # 0
             THEN parser_query(pairs, i + 1,
                               Insert(query, SubSeq(pair, 1, eq_idx - 1),
                                      SubSeq(pair, eq_idx + 1, Len(pair))))
             ELSE parser_query(pairs, i + 1, Insert(query, pair, <<>>))

\* parser::parse(raw)
parser_parse(raw) ==
    LET parts == SplitNOnTerminator(raw)
        headers_part == parts[1]
        body_part == IF Len(parts) > 1 THEN parts[2] ELSE <<>>
        lines == Lines(headers_part)
    IN  IF Len(lines) = 0 THEN ParseErr("Missing request line")
        ELSE
        LET request_parts == SplitWhitespace(lines[1]) IN
        IF Len(request_parts) < 1 THEN ParseErr("Missing method")
        ELSE IF Len(request_parts) < 2 THEN ParseErr("Missing path")
        ELSE IF Len(request_parts) < 3 THEN ParseErr("Missing HTTP version")
        ELSE
        LET path_with_query == request_parts[2]
            q_idx == IndexOf(path_with_query, "?")
            path == IF q_idx # 0 THEN SubSeq(path_with_query, 1, q_idx - 1)
                    ELSE path_with_query
            query == IF q_idx # 0
                     THEN parser_query(SplitOn(SubSeq(path_with_query, q_idx + 1,
                                                      Len(path_with_query)), "&"),
                                       1, EmptyMap)
                     ELSE EmptyMap
            headers == HeaderLines(Tail(lines), 1, EmptyMap)
            method == Method_from(request_parts[1])
        IN  IF method.panic THEN ParsePanic(method.method)
            ELSE ParseOk([method |-> method.method, path |-> path,
                          version |-> Version_from(request_parts[3]),
                          headers |-> headers, body |-> body_part,
                          params |-> EmptyMap, query |-> query])

(***************************************************************************)
(* Services, layers and the builder (src/service.rs, src/middleware.rs).   *)
(***************************************************************************)

\* service_fn(f): HandlerService { f }
service_fn(f) == [kind |-> "HandlerService", f |-> f]

\* impl Service for Router: a router is itself a service, the base of a chain
\* of layers just as a HandlerService is.
Router_service(r) == [kind |-> "Router", router |-> r]

\* The service s wraps no other service.
IsBase(s) == s.kind \in {"HandlerService", "Router"}

\* The request the built service is called with.
ServiceRequest == Request("GET", Str_x, EmptyMap)

\* LogLayer::layer(service): LogMiddleware { inner: service }.  tag names
\* the layer object, so that two layers of a kind can be told apart.
LogLayer_layer(tag, service) == [kind |-> "LogMiddleware", tag |-> tag, inner |-> service]

\* CorsLayer::layer(service): CorsMiddleware { inner: service }
CorsLayer_layer(tag, service) == [kind |-> "CorsMiddleware", tag |-> tag, inner |-> service]

\* Layer::layer for the layer l = [kind, tag].
Layer_layer(l, service) ==
    IF l.kind = "LogLayer" THEN LogLayer_layer(l.tag, service)
    ELSE CorsLayer_layer(l.tag, service)

\* ServiceBuilder::new(service)
ServiceBuilder_new(service) == [service |-> service]

\* The layer l put around the base service, inside the layers s already has.
RECURSIVE WrapInnermost(_, _)
WrapInnermost(s, l) ==
    IF IsBase(s) THEN Layer_layer(l, s)
    ELSE [s EXCEPT !.inner = WrapInnermost(s.inner, l)]

\* A builder whose first layer stays the outermost one.
ServiceBuilder_layer_inner(b, l) == [service |-> WrapInnermost(b.service, l)]

\* ServiceBuilder::layer(self, layer)
ServiceBuilder_layer(b, l) == [service |-> Layer_layer(l, b.service)]

\* ServiceBuilder::build(self)
ServiceBuilder_build(b) == b.service

\* An observable step of a call: who is a layer's tag, or 0 for the base
\* service.
Event(who, what) == [who |-> who, what |-> what]

\* What Service::call does before it returns its future: LogMiddleware
\* prints the request line and calls the inner service, CorsMiddleware
\* calls the inner service, HandlerService creates the handler's future
\* (an async fn runs nothing until it is polled).
RECURSIVE CallEvents(_)
CallEvents(s) ==
    IF IsBase(s) THEN <<>>
    ELSE <<Event(s.tag, "before")>> \o CallEvents(s.inner)

\* What awaiting the returned future does: the inner future first, then
\* LogMiddleware prints the outcome and CorsMiddleware inserts its headers
\* (only into a response: `future.await?` returns an error at once).
RECURSIVE AwaitEvents(_, _)
AwaitEvents(s, ok) ==
    IF IsBase(s) THEN <<Event(0, "run")>>
    ELSE IF s.kind = "LogMiddleware"
    THEN AwaitEvents(s.inner, ok) \o <<Event(s.tag, "after")>>
    ELSE AwaitEvents(s.inner, ok)
         \o (IF ok THEN <<Event(s.tag, "after")>> ELSE <<Event(s.tag, "error")>>)

\* The outcome of service.call(request).await
RECURSIVE CallResult(_, _)
CallResult(s, ok) ==
    IF s.kind = "HandlerService" THEN HandlerResult(s.f, ok)
    ELSE IF s.kind = "Router" THEN handle(s.router, ServiceRequest, ok).result
    ELSE IF s.kind = "LogMiddleware" THEN CallResult(s.inner, ok)
    ELSE LET r == CallResult(s.inner, ok) IN
         IF r.ok THEN [r EXCEPT !.response = <<cors_headers(r.response[1])>>]
         ELSE r

\* service.call(request).await: the events in the order they happen.
call(s, ok) == CallEvents(s) \o AwaitEvents(s, ok)

\* Poll::Ready(Ok(())) and Poll::Pending
Poll_Ready_Ok == [poll |-> "Ready", result |-> "Ok"]

Poll_Pending == [poll |-> "Pending", result |-> "None"]

\* A chain in which a logging layer takes a moment to get ready.
RECURSIVE poll_ready_log_pending(_)
poll_ready_log_pending(s) ==
    IF IsBase(s) THEN Poll_Ready_Ok
    ELSE IF s.kind = "LogMiddleware" THEN Poll_Pending
    ELSE poll_ready_log_pending(s.inner)

\* Service::poll_ready: Router and HandlerService answer Poll::Ready(Ok(())),
\* LogMiddleware and CorsMiddleware answer what their inner service answers.
RECURSIVE poll_ready(_)
poll_ready(s) ==
    IF s.kind = "HandlerService" THEN Poll_Ready_Ok
    ELSE IF s.kind = "Router" THEN Poll_Ready_Ok
    ELSE IF s.kind = "LogMiddleware" THEN poll_ready(s.inner)
    ELSE poll_ready(s.inner)

(***************************************************************************)
(* The state.                                                              *)
(***************************************************************************)

VARIABLES
    \* Server::listen and the connection workers (src/server.rs)
    listening,      \* the accept loop is running
    accepted,       \* how many connections the loop has accepted
    pc,             \* per connection: where its worker is
    wire,           \* per connection: the bytes the peer has yet to send
    request_data,   \* per connection: the accumulated bytes
    request,        \* per connection: <<>> or <<the parsed Request>>
    mw_index,       \* per connection: the next middleware to run
    response,       \* per connection: <<>> or <<the Response to write>>
    written,        \* per connection: what write_all was given, in order
    invoked,        \* per connection: the middleware and handler calls made
    read_end,       \* per connection: how its read loop ended (history)
    parsed,         \* per connection: what Request::parse gave (history)
    ret,            \* per connection: how handle_client ended
    \* the router under construction and its latest call (src/router.rs)
    router,
    router_call,
    registered,     \* the registration calls made so far, in call order (history)
    held,           \* <<>> or <<a clone of the router and when it was taken>>
    \* the service builder and the latest call of the built service
    builder,
    built,
    events,
    outcome,
    polled,         \* <<>> or <<what poll_ready of the built service returned>>
    \* the pattern matcher at work on one pattern and one path (src/router.rs)
    pattern_in,     \* the pattern string, and the segments it was written from
    path_in,        \* the path string, and the segments it was written from
    compiled,       \* <<>> or <<the RoutePattern's segments>>
    match_result,   \* <<>> or <<what matches returned>>
    \* a response from its creation to the wire (src/http/response.rs)
    res,            \* <<>> or <<the Response>>
    bytes_out,      \* <<>> or <<the bytes to_bytes returned>>
    \* the request parser at work on one buffer (src/http.rs)
    raw_in,         \* the bytes handed to Request::parse
    parse_out,      \* <<>> or <<what Request::parse did with them>>
    method_out,     \* <<>> or <<a string and what Method::from did with it>>
    twin_in,        \* two buffers that differ in their query strings only
    twin_out        \* <<>> or <<what parsing and routing made of the two>>

server_vars ==
    <<listening, accepted, pc, wire, request_data, request, mw_index,
      response, written, invoked, read_end, parsed, ret>>

router_vars == <<router, router_call, registered, held>>

service_vars == <<builder, built, events, outcome, polled>>

matcher_vars == <<pattern_in, path_in, compiled, match_result>>

response_vars == <<res, bytes_out>>

parser_vars == <<raw_in, parse_out, method_out, twin_in, twin_out>>

vars ==
    <<server_vars, router_vars, service_vars, matcher_vars, response_vars,
      parser_vars>>

(***************************************************************************)
(* Bounds and configuration.                                               *)
(***************************************************************************)

\* Connections the accept loop accepts in a run.
MaxConns == 2

\* `let mut buffer = [0; 4096]`, scaled down.
BufferSize == 4

\* `request_data.len() >= 1024 * 1024`, scaled down.
MaxRequestSize == 14

\* Routes registered in a run of the router.
MaxRoutes == 3

\* Layers applied in a run of the builder.
MaxLayers == 3

\* Segments in the patterns and the paths given to the matcher.
MaxSegments == 3

Conns == 1..MaxConns

Min(a, b) == IF a < b THEN a ELSE b

\* The router the server shares with its workers: GET /x, POST /:id.
ServerRouter ==
    post(get(Router_new, Str_x, RouteHandler(1)), Str_id, RouteHandler(2))

\* router.middleware: one middleware function is installed.
ServerMiddleware == <<"mw1">>

\* What a peer may send before it closes its end: a complete request for
\* a registered route, a request cut off after its request line, a request
\* line cut off after its version with a method that is no method, a
\* complete request line without a path, nothing at all, a request line
\* that never ends (longer than any buffer the loop keeps), and a complete
\* request that is as long as the cap.
Msg_get_x == <<"G", "E", "T", " ", "/", "x", " ", "H", CR, LF, CR, LF>>

Msg_cut_root == <<"G", "E", "T", " ", "/", " ", "H", CR, LF>>

Msg_cut_bad_method == <<"X", " ", "/", " ", "H">>

Msg_no_path == <<"G", "E", "T", CR, LF, CR, LF>>

Msg_nothing == <<>>

Msg_endless ==
    [i \in 1..(MaxRequestSize + BufferSize) |->
        IF i <= 5 THEN <<"G", "E", "T", " ", "/">>[i] ELSE "x"]

Msg_long ==
    LET tail == <<" ", "H", CR, LF, CR, LF>>
        len == MaxRequestSize
    IN  [i \in 1..len |->
            IF i <= 5 THEN <<"G", "E", "T", " ", "/">>[i]
            ELSE IF i > len - Len(tail) THEN tail[i - (len - Len(tail))]
            ELSE "x"]

Messages ==
    {Msg_get_x, Msg_cut_root, Msg_cut_bad_method, Msg_no_path, Msg_nothing,
     Msg_endless, Msg_long}

\* The response an (opaque) middleware returns when it rejects a request.
RejectResponse == set_body(Response_new(401), <<>>)

(***************************************************************************)
(* Server::listen and Server::handle_client (src/server.rs).               *)
(***************************************************************************)

\* No pattern is being matched.
MatcherIdle ==
    /\ pattern_in = [parts |-> <<>>, text |-> <<>>]
    /\ path_in = [parts |-> <<>>, text |-> <<>>]
    /\ compiled = <<>>
    /\ match_result = <<>>
    /\ res = <<>>
    /\ bytes_out = <<>>

\* No buffer has been handed to the parser on its own.
ParserIdle ==
    /\ raw_in = <<>>
    /\ parse_out = <<>>
    /\ method_out = <<>>
    /\ twin_in = [method |-> <<>>, path |-> <<>>, a |-> <<>>, b |-> <<>>]
    /\ twin_out = <<>>

ServerInit ==
    /\ listening = TRUE
    /\ accepted = 0
    /\ pc = [c \in Conns |-> "unaccepted"]
    /\ wire = [c \in Conns |-> <<>>]
    /\ request_data = [c \in Conns |-> <<>>]
    /\ request = [c \in Conns |-> <<>>]
    /\ mw_index = [c \in Conns |-> 0]
    /\ response = [c \in Conns |-> <<>>]
    /\ written = [c \in Conns |-> <<>>]
    /\ invoked = [c \in Conns |-> <<>>]
    /\ read_end = [c \in Conns |-> "none"]
    /\ parsed = [c \in Conns |-> "none"]
    /\ ret = [c \in Conns |-> "none"]

\* A process that a panic in any thread brings down (panic = "abort", or
\* a worker run on the accept loop's own thread).
Finish_abort(c, r) ==
    /\ pc' = [pc EXCEPT ![c] = "closed"]
    /\ ret' = [ret EXCEPT ![c] = r]
    /\ wire' = [wire EXCEPT ![c] = <<>>]
    /\ request_data' = [request_data EXCEPT ![c] = <<>>]
    /\ request' = [request EXCEPT ![c] = <<>>]
    /\ mw_index' = [mw_index EXCEPT ![c] = 0]
    /\ response' = [response EXCEPT ![c] = <<>>]
    /\ listening' = (listening /\ r # "panic")

\* The worker thread of connection c ends with r: the value handle_client
\* returns ("Ok", "Err: ...") or "panic".  Its locals and the stream are
\* dropped.  The closure given to thread::spawn prints an error; a panic
\* unwinds that thread only, so the accept loop and the other workers go on.
Finish(c, r) ==
    /\ pc' = [pc EXCEPT ![c] = "closed"]
    /\ ret' = [ret EXCEPT ![c] = r]
    /\ wire' = [wire EXCEPT ![c] = <<>>]
    /\ request_data' = [request_data EXCEPT ![c] = <<>>]
    /\ request' = [request EXCEPT ![c] = <<>>]
    /\ mw_index' = [mw_index EXCEPT ![c] = 0]
    /\ response' = [response EXCEPT ![c] = <<>>]
    /\ listening' = listening

\* The worker of connection c moves on to `next`.
Goto(c, next) ==
    /\ pc' = [pc EXCEPT ![c] = next]
    /\ UNCHANGED <<ret, listening>>

\* An accept loop that handles each connection on its own thread of
\* control: handle_client(stream) is called where thread::spawn is.
Accept_inline(c) ==
    /\ listening
    /\ c = accepted + 1
    /\ pc[c] = "unaccepted"
    /\ \A d \in 1..(c - 1) : pc[d] = "closed"
    /\ accepted' = c
    /\ \E msg \in Messages : wire' = [wire EXCEPT ![c] = msg]
    /\ Goto(c, "start")
    /\ UNCHANGED <<request_data, request, mw_index, response, written, invoked,
                   read_end, parsed>>
    /\ UNCHANGED <<router_vars, service_vars, matcher_vars, response_vars, parser_vars>>

\* listener.incoming() yields Ok(stream): a thread is spawned for it.
Accept(c) ==
    /\ listening
    /\ c = accepted + 1
    /\ pc[c] = "unaccepted"
    /\ accepted' = c
    /\ \E msg \in Messages : wire' = [wire EXCEPT ![c] = msg]
    /\ Goto(c, "start")
    /\ UNCHANGED <<request_data, request, mw_index, response, written, invoked,
                   read_end, parsed>>
    /\ UNCHANGED <<router_vars, service_vars, matcher_vars, response_vars, parser_vars>>

\* listener.incoming() yields Err(e): it is printed and the loop goes on.
AcceptError ==
    /\ listening
    /\ UNCHANGED vars

\* stream.set_read_timeout(Some(5 s)), which may fail.
SetReadTimeout(c) ==
    /\ pc[c] = "start"
    /\ \/ /\ Goto(c, "read")
          /\ UNCHANGED <<wire, request_data, request, mw_index, response>>
       \/ Finish(c, "Err: Failed to set read timeout")
    /\ UNCHANGED <<accepted, written, invoked, read_end, parsed>>
    /\ UNCHANGED <<router_vars, service_vars, matcher_vars, response_vars, parser_vars>>

\* A loop that gives up when the peer closes: `return Ok(())` for `break`.
OnEof_abort(c) ==
    /\ read_end' = [read_end EXCEPT ![c] = "eof"]
    /\ Finish(c, "Ok")

\* `if bytes_read == 0 { break; }`: the peer has closed; the loop ends and
\* the bytes accumulated so far go to the parser.
OnEof(c) ==
    /\ read_end' = [read_end EXCEPT ![c] = "eof"]
    /\ Goto(c, "parse")
    /\ UNCHANGED <<wire, request_data, request, mw_index, response>>

\* A loop that stops reading at the cap and goes on: `break` for `return`.
OnTooLarge_break(c) ==
    /\ read_end' = [read_end EXCEPT ![c] = "too large"]
    /\ Goto(c, "parse")
    /\ UNCHANGED <<wire, request_data, request, mw_index, response>>

\* A loop that, at the cap, throws away what it has read and reads on.
OnTooLarge_discard(c) ==
    /\ request_data' = [request_data EXCEPT ![c] = <<>>]
    /\ Goto(c, "read")
    /\ UNCHANGED <<wire, request, mw_index, response, read_end>>

\* `if request_data.len() >= 1024 * 1024 { return Err("Request too large") }`
OnTooLarge(c) ==
    /\ read_end' = [read_end EXCEPT ![c] = "too large"]
    /\ Finish(c, "Err: Request too large")

\* `.map_err(|e| format!("Error reading from stream: {}", e))?`: the read
\* failed, or the 5 s deadline passed.
OnReadError(c) ==
    /\ read_end' = [read_end EXCEPT ![c] = "error"]
    /\ Finish(c, "Err: Error reading from stream")

\* A loop that looks at the size before it looks for the end of headers.
Read_size_first(c) ==
    /\ pc[c] = "read"
    /\ \/ \E n \in 1..Min(BufferSize, Len(wire[c])) :
            LET data == request_data[c] \o SubSeq(wire[c], 1, n) IN
            IF Len(data) >= MaxRequestSize
            THEN OnTooLarge(c)
            ELSE IF HasTerminator(data)
            THEN /\ request_data' = [request_data EXCEPT ![c] = data]
                 /\ wire' = [wire EXCEPT ![c] = SubSeq(@, n + 1, Len(@))]
                 /\ read_end' = [read_end EXCEPT ![c] = "terminator"]
                 /\ Goto(c, "parse")
                 /\ UNCHANGED <<request, mw_index, response>>
            ELSE /\ request_data' = [request_data EXCEPT ![c] = data]
                 /\ wire' = [wire EXCEPT ![c] = SubSeq(@, n + 1, Len(@))]
                 /\ Goto(c, "read")
                 /\ UNCHANGED <<request, mw_index, response, read_end>>
       \/ /\ wire[c] = <<>>
          /\ OnEof(c)
       \/ OnReadError(c)
    /\ UNCHANGED <<accepted, written, invoked, parsed>>
    /\ UNCHANGED <<router_vars, service_vars, matcher_vars, response_vars, parser_vars>>

\* What the peer has yet to send once n bytes of w were read.  The peer of
\* Msg_endless never stops: it has as many bytes ready after a read as before.
Rest(w, n) ==
    IF Len(w) = Len(Msg_endless)
    THEN SubSeq(w, n + 1, Len(w)) \o [i \in 1..n |-> "x"]
    ELSE SubSeq(w, n + 1, Len(w))

\* One iteration of the read loop.
Read(c) ==
    /\ pc[c] = "read"
    /\ \/ \* bytes_read > 0
          \E n \in 1..Min(BufferSize, Len(wire[c])) :
            LET data == request_data[c] \o SubSeq(wire[c], 1, n) IN
            IF HasTerminator(data)
            THEN /\ request_data' = [request_data EXCEPT ![c] = data]
                 /\ wire' = [wire EXCEPT ![c] = Rest(@, n)]
                 /\ read_end' = [read_end EXCEPT ![c] = "terminator"]
                 /\ Goto(c, "parse")
                 /\ UNCHANGED <<request, mw_index, response>>
            ELSE IF Len(data) >= MaxRequestSize
            THEN OnTooLarge(c)
            ELSE /\ request_data' = [request_data EXCEPT ![c] = data]
                 /\ wire' = [wire EXCEPT ![c] = Rest(@, n)]
                 /\ Goto(c, "read")
                 /\ UNCHANGED <<request, mw_index, response, read_end>>
       \/ \* bytes_read == 0: the peer has sent what it had and closed
          /\ wire[c] = <<>>
          /\ OnEof(c)
       \/ OnReadError(c)
    /\ UNCHANGED <<accepted, written, invoked, parsed>>
    /\ UNCHANGED <<router_vars, service_vars, matcher_vars, response_vars, parser_vars>>

\* Where the worker goes once middleware i has let the request pass.
AfterMiddleware(i) == IF i >= Len(ServerMiddleware) THEN "dispatch" ELSE "middleware"

\* An `Err(e)` arm that only logs and returns.
OnParseError_silent(c) == Finish(c, "Err: Failed to parse request")

\* The `Err(e)` arm of the match on Request::parse: the 400 response is
\* built and written, and handle_client returns.
OnParseError(c) ==
    /\ response' = [response EXCEPT ![c] = <<BadRequestResponse>>]
    /\ Goto(c, "write")
    /\ UNCHANGED <<wire, request_data, request, mw_index>>

\* The buffers a worker can hold: what a peer has sent of its message so far.
Buffers ==
    UNION {{SubSeq(msg, 1, k) : k \in 0..Len(msg)} : msg \in Messages}

\* Request::parse on each of these buffers, worked out once for all workers.
ParseOf == [raw \in Buffers |-> parse(raw)]

\* Request::parse(&request_data) and the match on its result.
Parse(c) ==
    /\ pc[c] = "parse"
    /\ LET p == ParseOf[request_data[c]] IN
       /\ parsed' = [parsed EXCEPT ![c] = p.tag]
       /\ CASE p.tag = "Ok" ->
                 /\ request' = [request EXCEPT ![c] = p.request]
                 /\ mw_index' = [mw_index EXCEPT ![c] = 1]
                 /\ Goto(c, AfterMiddleware(0))
                 /\ UNCHANGED <<wire, request_data, response>>
            [] p.tag = "Err" -> OnParseError(c)
            [] OTHER -> Finish(c, "panic")
    /\ UNCHANGED <<accepted, written, invoked, read_end>>
    /\ UNCHANGED <<router_vars, service_vars, matcher_vars, response_vars, parser_vars>>

\* One iteration of `for middleware in &router.middleware`.  A middleware
\* is an opaque function: it lets the request pass or answers it itself.
Middleware(c) ==
    /\ pc[c] = "middleware"
    /\ invoked' = [invoked EXCEPT ![c] =
                      Append(@, [op |-> "middleware", id |-> mw_index[c]])]
    /\ \/ /\ mw_index' = [mw_index EXCEPT ![c] = @ + 1]
          /\ Goto(c, AfterMiddleware(mw_index[c]))
          /\ UNCHANGED response
       \/ /\ response' = [response EXCEPT ![c] = <<RejectResponse>>]
          /\ Goto(c, "write")
          /\ UNCHANGED mw_index
    /\ UNCHANGED <<accepted, wire, request_data, request, written, read_end, parsed>>
    /\ UNCHANGED <<router_vars, service_vars, matcher_vars, response_vars, parser_vars>>

\* A dispatch that takes the matched route out of the shared router (as a
\* worker with a mutable reference to it could).
Dispatch_consume(c) ==
    /\ pc[c] = "dispatch"
    /\ LET i == FirstMatch(router.routes, request[c][1], 1) IN
       IF i # 0
       THEN LET h == router.routes[i].handler IN
            /\ invoked' = [invoked EXCEPT ![c] =
                              Append(@, [op |-> "handler", id |-> h.id])]
            /\ router' = [router EXCEPT !.routes =
                              SubSeq(@, 1, i - 1) \o SubSeq(@, i + 1, Len(@))]
            /\ \/ /\ response' = [response EXCEPT ![c] = <<HandlerResponse(h)>>]
                  /\ Goto(c, "write")
                  /\ UNCHANGED <<wire, request_data, request, mw_index>>
               \/ Finish(c, "panic")
       ELSE /\ response' = [response EXCEPT ![c] = <<NotFoundResponse>>]
            /\ Goto(c, "write")
            /\ UNCHANGED <<wire, request_data, request, mw_index, invoked, router>>
    /\ UNCHANGED <<accepted, written, read_end, parsed>>
    /\ UNCHANGED <<router_call, registered, held, service_vars, matcher_vars, response_vars, parser_vars>>

\* `match router.route(request.clone())`: the handler of the matching
\* route is called, or the 404 response is built.  RequestHandler is
\* fn(&Request) -> Response: a handler that fails has no error value to
\* return, it can only panic.
Dispatch(c) ==
    /\ pc[c] = "dispatch"
    /\ LET i == FirstMatch(router.routes, request[c][1], 1) IN
       IF i # 0
       THEN LET h == router.routes[i].handler IN
            /\ invoked' = [invoked EXCEPT ![c] =
                              Append(@, [op |-> "handler", id |-> h.id])]
            /\ \/ /\ response' = [response EXCEPT ![c] = <<HandlerResponse(h)>>]
                  /\ Goto(c, "write")
                  /\ UNCHANGED <<wire, request_data, request, mw_index>>
               \/ Finish(c, "panic")
       ELSE /\ response' = [response EXCEPT ![c] = <<NotFoundResponse>>]
            /\ Goto(c, "write")
            /\ UNCHANGED <<wire, request_data, request, mw_index, invoked>>
    /\ UNCHANGED <<accepted, written, read_end, parsed>>
    /\ UNCHANGED <<router_vars, service_vars, matcher_vars, response_vars, parser_vars>>

\* A worker that keeps the connection alive: after a response it reads the
\* next request.
Write_keepalive(c) ==
    /\ pc[c] = "write"
    /\ written' = [written EXCEPT ![c] =
                      Append(@, [response |-> response[c][1], sent |-> TRUE])]
    /\ request_data' = [request_data EXCEPT ![c] = <<>>]
    /\ request' = [request EXCEPT ![c] = <<>>]
    /\ response' = [response EXCEPT ![c] = <<>>]
    /\ mw_index' = [mw_index EXCEPT ![c] = 0]
    /\ Goto(c, "read")
    /\ UNCHANGED <<accepted, wire, invoked, read_end, parsed>>
    /\ UNCHANGED <<router_vars, service_vars, matcher_vars, response_vars, parser_vars>>

\* stream.write_all(&response.to_bytes()), then `return Ok(())`; a failed
\* write returns "Failed to send response".
Write(c) ==
    /\ pc[c] = "write"
    /\ \E sent \in BOOLEAN :
          /\ written' = [written EXCEPT ![c] =
                            Append(@, [response |-> response[c][1], sent |-> sent])]
          /\ Finish(c, IF sent THEN "Ok" ELSE "Err: Failed to send response")
    /\ UNCHANGED <<accepted, invoked, read_end, parsed>>
    /\ UNCHANGED <<router_vars, service_vars, matcher_vars, response_vars, parser_vars>>

Init ==
    /\ ServerInit
    /\ router = ServerRouter
    /\ router_call = <<>>
    /\ registered = <<>>
    /\ held = <<>>
    /\ ParserIdle
    /\ builder = ServiceBuilder_new(service_fn(RouteHandler(1)))
    /\ built = <<>>
    /\ events = <<>>
    /\ outcome = <<>>
    /\ polled = <<>>
    /\ MatcherIdle

Next ==
    \/ \E c \in Conns : Accept(c)
    \/ AcceptError
    \/ \E c \in Conns : SetReadTimeout(c)
    \/ \E c \in Conns : Read(c)
    \/ \E c \in Conns : Parse(c)
    \/ \E c \in Conns : Middleware(c)
    \/ \E c \in Conns : Dispatch(c)
    \/ \E c \in Conns : Write(c)

Spec == Init /\ [][Next]_vars

\* A step of the worker of connection c.
WorkerStep(c) ==
    \/ SetReadTimeout(c)
    \/ Read(c)
    \/ Parse(c)
    \/ Middleware(c)
    \/ Dispatch(c)
    \/ Write(c)

\* thread::spawn gives every connection a thread of its own, which the
\* scheduler lets run: a worker that can take a step takes one in the end.
SpecLive == Init /\ [][Next]_vars /\ \A c \in Conns : WF_vars(WorkerStep(c))

(***************************************************************************)
(* The router on its own: it is assembled by the registration operations   *)
(* and then serves calls (Router::call clones it and runs Router::handle). *)
(***************************************************************************)

Patterns == {Str_x, Str_id, Str_x_star}

\* Path parameters a request may already carry when it reaches the router.
StaleParams == Insert(EmptyMap, <<"i", "d">>, <<"o", "l", "d">>)

\* A request with a header, a body and a query parameter.
FullRequest ==
    [Request("POST", Str_z, StaleParams) EXCEPT
        !.version = "HTTP/1.0",
        !.headers = Insert(EmptyMap, <<"H">>, <<"v">>),
        !.body = <<"b">>,
        !.query = Insert(EmptyMap, <<"q">>, <<"1">>)]

Requests ==
    {Request(m, p, EmptyMap) : m \in {"GET", "POST", "PUT"}, p \in {Str_x, Str_x_y, Str_z}}
    \cup {Request("GET", p, StaleParams) : p \in {Str_x, Str_x_y, Str_z}}
    \cup {FullRequest}

RouterInit ==
    /\ ServerInit
    /\ router = Router_new
    /\ router_call = <<>>
    /\ registered = <<>>
    /\ held = <<>>
    /\ ParserIdle
    /\ builder = ServiceBuilder_new(service_fn(RouteHandler(1)))
    /\ built = <<>>
    /\ events = <<>>
    /\ outcome = <<>>
    /\ polled = <<>>
    /\ MatcherIdle

\* The handler registered next: each registration brings its own closure.
NextHandler == RouteHandler(Len(router.routes) + 1)

\* The record of one registration call: which method of Router was called and
\* with which arguments.
Registration(name, pattern, method, handler) ==
    [call |-> name, pattern |-> pattern, method |-> method, handler |-> handler]

\* router.route(pattern, None, handler)
Route(pattern) ==
    /\ router_call = <<>>
    /\ Len(router.routes) < MaxRoutes
    /\ router' = route(router, pattern, NoMethod, NextHandler)
    /\ registered' = Append(registered,
                            Registration("route", pattern, NoMethod, NextHandler))
    /\ UNCHANGED <<router_call, held, server_vars, service_vars, matcher_vars,
                   response_vars, parser_vars>>

\* router.get(pattern, handler)
Get(pattern) ==
    /\ router_call = <<>>
    /\ Len(router.routes) < MaxRoutes
    /\ router' = get(router, pattern, NextHandler)
    /\ registered' = Append(registered,
                            Registration("get", pattern, NoMethod, NextHandler))
    /\ UNCHANGED <<router_call, held, server_vars, service_vars, matcher_vars,
                   response_vars, parser_vars>>

\* router.post(pattern, handler)
Post(pattern) ==
    /\ router_call = <<>>
    /\ Len(router.routes) < MaxRoutes
    /\ router' = post(router, pattern, NextHandler)
    /\ registered' = Append(registered,
                            Registration("post", pattern, NoMethod, NextHandler))
    /\ UNCHANGED <<router_call, held, server_vars, service_vars, matcher_vars,
                   response_vars, parser_vars>>

\* router.set_not_found_handler(handler)
SetNotFoundHandler ==
    /\ router_call = <<>>
    /\ router' = set_not_found_handler(router, NotFoundHandler(1))
    /\ UNCHANGED <<router_call, registered, held, server_vars, service_vars,
                   matcher_vars, response_vars, parser_vars>>

\* router.call(req).await; then the same request again, or, after a request
\* that went to the default not-found handler, any other request.
RouterCall(req, ok) ==
    /\ IF router_call = <<>> THEN TRUE
       ELSE \/ router_call[1].request = req
            \/ router_call[1].invoked[1].handler = DefaultNotFoundHandler
    /\ router_call' = <<[request |-> req,
                         ok |-> ok,
                         invoked |-> handle(router, req, ok).invoked,
                         result |-> handle(router, req, ok).result]>>
    /\ UNCHANGED <<router, registered, held, server_vars, service_vars, matcher_vars,
                   response_vars, parser_vars>>

RouterNext ==
    \/ \E pattern \in Patterns : Route(pattern)
    \/ \E pattern \in Patterns : Get(pattern)
    \/ \E pattern \in Patterns : Post(pattern)
    \/ SetNotFoundHandler
    \/ \E req \in Requests, ok \in BOOLEAN : RouterCall(req, ok)

SpecRouter == RouterInit /\ [][RouterNext]_vars

(***************************************************************************)
(* The registrations on their own: a router is put together call by call,  *)
(* and at some point a clone of it is taken and kept aside.                *)
(***************************************************************************)

\* let kept = router.clone(); impl Clone for Router copies the route list and
\* the not-found handler.
Router_clone(r) ==
    [routes |-> r.routes, not_found_handler |-> r.not_found_handler]

CloneRouter ==
    /\ held = <<>>
    /\ held' = <<[router |-> Router_clone(router), at |-> Len(registered)]>>
    /\ UNCHANGED <<router, router_call, registered, server_vars, service_vars,
                   matcher_vars, response_vars, parser_vars>>

RegistrationNext ==
    \/ \E pattern \in Patterns : Route(pattern)
    \/ \E pattern \in Patterns : Get(pattern)
    \/ \E pattern \in Patterns : Post(pattern)
    \/ SetNotFoundHandler
    \/ CloneRouter

SpecRegistration == RouterInit /\ [][RegistrationNext]_vars

(***************************************************************************)
(* The parsers on their own: a buffer is handed to Request::parse and to   *)
(* parser::parse, and a string to Method::from.                            *)
(***************************************************************************)

\* Request lines: none, blank, one token, two, three, four, a lower-case
\* method, an unknown method, a query with an empty pair, runs of whitespace.
RequestLines ==
    {<<>>,
     <<" ">>,
     <<"G", "E", "T">>,
     <<"G", "E", "T", " ", "/">>,
     <<"G", "E", "T", " ", "/", " ", "H">>,
     <<"G", "E", "T", " ", "/", " ", "H", " ", "x">>,
     <<"g", "e", "t", " ", "/", "x", " ", "H">>,
     <<"X", " ", "/", " ", "H">>,
     <<"P", "O", "S", "T", " ", "/", "?", "a", "=", "1", "&", " ", "H">>,
     <<" ", "P", "U", "T", " ", " ", "/", "\t", " ", "H", " ">>}

\* What follows the request line in the header block: nothing, a header
\* line, a line without a colon.
HeaderBlocks ==
    {<<>>,
     <<CR, LF, "a", ":", " ", "b">>,
     <<CR, LF, "a", "b">>}

\* What follows the header block: nothing, a line end, two bare line feeds,
\* the separator, the separator and a body, and a body that holds the
\* separator once more.
Tails ==
    {<<>>,
     <<CR, LF>>,
     <<LF, LF>>,
     <<CR, LF, CR, LF>>,
     <<CR, LF, CR, LF, "b">>,
     <<CR, LF, CR, LF, "b", CR, LF, CR, LF, "c">>}

RawInputs == {l \o h \o t : l \in RequestLines, h \in HeaderBlocks, t \in Tails}

\* Strings given to Method::from: the nine names, names in lower and mixed
\* case, and strings that are no name.
MethodInputs ==
    {<<"G", "E", "T">>,
     <<"P", "O", "S", "T">>,
     <<"P", "U", "T">>,
     <<"D", "E", "L", "E", "T", "E">>,
     <<"H", "E", "A", "D">>,
     <<"C", "O", "N", "N", "E", "C", "T">>,
     <<"O", "P", "T", "I", "O", "N", "S">>,
     <<"T", "R", "A", "C", "E">>,
     <<"P", "A", "T", "C", "H">>,
     <<"g", "e", "t">>,
     <<"P", "o", "s", "t">>,
     <<"p", "a", "t", "c", "h">>,
     <<"c", "O", "n", "N", "e", "C", "t">>,
     <<>>,
     <<"X">>,
     <<"G", "E", "T", "S">>,
     <<"G", "E">>,
     <<"G", "E", "T", " ">>,
     <<"G", " ", "E", "T">>}

ParserInit ==
    /\ ServerInit
    /\ router = ServerRouter
    /\ router_call = <<>>
    /\ registered = <<>>
    /\ held = <<>>
    /\ builder = ServiceBuilder_new(service_fn(RouteHandler(1)))
    /\ built = <<>>
    /\ events = <<>>
    /\ outcome = <<>>
    /\ polled = <<>>
    /\ MatcherIdle
    /\ raw_in \in RawInputs
    /\ parse_out = <<>>
    /\ method_out = <<>>
    /\ twin_in = [method |-> <<>>, path |-> <<>>, a |-> <<>>, b |-> <<>>]
    /\ twin_out = <<>>

\* Request::parse(&raw)
RequestParse ==
    /\ parse_out' = <<[by |-> "Request::parse", result |-> parse(raw_in)]>>
    /\ UNCHANGED <<raw_in, method_out, twin_in, twin_out, server_vars, router_vars, service_vars,
                   matcher_vars, response_vars>>

\* parser::parse(&raw)
ParserParse ==
    /\ parse_out' = <<[by |-> "parser::parse", result |-> parser_parse(raw_in)]>>
    /\ UNCHANGED <<raw_in, method_out, twin_in, twin_out, server_vars, router_vars, service_vars,
                   matcher_vars, response_vars>>

\* Method::from(s)
MethodFrom(s) ==
    /\ method_out' = <<[input |-> s, result |-> Method_from(s)]>>
    /\ UNCHANGED <<raw_in, parse_out, twin_in, twin_out, server_vars, router_vars, service_vars,
                   matcher_vars, response_vars>>

ParserNext ==
    \/ RequestParse
    \/ ParserParse
    \/ \E s \in MethodInputs : MethodFrom(s)

SpecParser == ParserInit /\ [][ParserNext]_vars

(***************************************************************************)
(* Parsing and routing together: two buffers that differ in their query    *)
(* strings only are parsed, and the router of the server handles both      *)
(* requests.                                                               *)
(***************************************************************************)

TwinMethods == {<<"G", "E", "T">>, <<"P", "O", "S", "T">>}

\* Paths: a registered one, one that a parameter captures, one too long, the
\* root.
TwinPaths == {<<"/", "x">>, <<"/", "z">>, <<"/", "x", "/", "y">>, <<"/">>}

\* What follows the path in the target: nothing, an empty query, a pair, a
\* pair named like the route's parameter, a query with "/" and "?" in it.
TwinQueries ==
    {<<>>,
     <<"?">>,
     <<"?", "a", "=", "1">>,
     <<"?", "i", "d", "=", "9">>,
     <<"?", "a", "/", "b", "?", "c">>}

\* The request "<method> <path><query> H" with its blank line.
TwinRaw(method, path, query) ==
    method \o <<" ">> \o path \o query \o <<" ", "H", CR, LF, CR, LF>>

TwinInit ==
    /\ ServerInit
    /\ router = ServerRouter
    /\ router_call = <<>>
    /\ registered = <<>>
    /\ held = <<>>
    /\ builder = ServiceBuilder_new(service_fn(RouteHandler(1)))
    /\ built = <<>>
    /\ events = <<>>
    /\ outcome = <<>>
    /\ polled = <<>>
    /\ MatcherIdle
    /\ raw_in = <<>>
    /\ parse_out = <<>>
    /\ method_out = <<>>
    /\ \E m \in TwinMethods, p \in TwinPaths, qa \in TwinQueries, qb \in TwinQueries :
          twin_in = [method |-> m, path |-> p,
                     a |-> TwinRaw(m, p, qa), b |-> TwinRaw(m, p, qb)]
    /\ twin_out = <<>>

\* Request::parse of both buffers.
TwinRequestParse ==
    /\ twin_out = <<>>
    /\ twin_out' = <<[a |-> parse(twin_in.a), b |-> parse(twin_in.b),
                      handled |-> <<>>]>>
    /\ UNCHANGED <<raw_in, parse_out, method_out, twin_in, server_vars, router_vars,
                   service_vars, matcher_vars, response_vars>>

\* parser::parse of both buffers.
TwinParserParse ==
    /\ twin_out = <<>>
    /\ twin_out' = <<[a |-> parser_parse(twin_in.a), b |-> parser_parse(twin_in.b),
                      handled |-> <<>>]>>
    /\ UNCHANGED <<raw_in, parse_out, method_out, twin_in, server_vars, router_vars,
                   service_vars, matcher_vars, response_vars>>

\* router.handle(request).await for both requests.
TwinHandle(ok) ==
    /\ twin_out # <<>>
    /\ IF twin_out = <<>> THEN FALSE
       ELSE /\ twin_out[1].handled = <<>>
            /\ twin_out[1].a.tag = "Ok"
            /\ twin_out[1].b.tag = "Ok"
            /\ twin_out' = <<[twin_out[1] EXCEPT !.handled =
                                <<handle(router, twin_out[1].a.request[1], ok),
                                  handle(router, twin_out[1].b.request[1], ok)>>]>>
    /\ UNCHANGED <<raw_in, parse_out, method_out, twin_in, server_vars, router_vars,
                   service_vars, matcher_vars, response_vars>>

TwinNext ==
    \/ TwinRequestParse
    \/ TwinParserParse
    \/ \E ok \in BOOLEAN : TwinHandle(ok)

SpecTwin == TwinInit /\ [][TwinNext]_vars

(***************************************************************************)
(* The builder on its own: layers are applied one by one, the service is   *)
(* built and then called.                                                  *)
(***************************************************************************)

\* How many layers wrap the service s.
RECURSIVE Depth(_)
Depth(s) == IF IsBase(s) THEN 0 ELSE 1 + Depth(s.inner)

ServiceInit ==
    /\ ServerInit
    /\ router = ServerRouter
    /\ router_call = <<>>
    /\ registered = <<>>
    /\ held = <<>>
    /\ ParserIdle
    /\ \/ \E n \in {1, 2, 3} :
              builder = ServiceBuilder_new(service_fn(RouteHandler(n)))
       \/ builder = ServiceBuilder_new(Router_service(ServerRouter))
    /\ built = <<>>
    /\ events = <<>>
    /\ outcome = <<>>
    /\ polled = <<>>
    /\ MatcherIdle

\* builder.layer(LogLayer) or builder.layer(CorsLayer); the layer object is
\* tagged with its place in the chain of .layer calls.
ApplyLayer(kind) ==
    /\ built = <<>>
    /\ Depth(builder.service) < MaxLayers
    /\ builder' = ServiceBuilder_layer(builder,
                      [kind |-> kind, tag |-> Depth(builder.service) + 1])
    /\ UNCHANGED <<built, events, outcome, polled, server_vars, router_vars, matcher_vars, response_vars, parser_vars>>

\* builder.build()
Build ==
    /\ built = <<>>
    /\ built' = <<ServiceBuilder_build(builder)>>
    /\ UNCHANGED <<builder, events, outcome, polled, server_vars, router_vars, matcher_vars, response_vars, parser_vars>>

\* service.call(request).await
CallService(ok) ==
    /\ built # <<>>
    /\ events' = call(built[1], ok)
    /\ outcome' = <<CallResult(built[1], ok)>>
    /\ UNCHANGED <<builder, built, polled, server_vars, router_vars, matcher_vars, response_vars, parser_vars>>

\* service.poll_ready(cx)
PollReady ==
    /\ built # <<>>
    /\ polled' = <<poll_ready(built[1])>>
    /\ UNCHANGED <<builder, built, events, outcome, server_vars, router_vars,
                   matcher_vars, response_vars, parser_vars>>

ServiceNext ==
    \/ \E kind \in {"LogLayer", "CorsLayer"} : ApplyLayer(kind)
    \/ Build
    \/ PollReady
    \/ \E ok \in BOOLEAN : CallService(ok)

SpecService == ServiceInit /\ [][ServiceNext]_vars

(***************************************************************************)
(* The pattern matcher on its own: a pattern string is compiled by         *)
(* RoutePattern::new and a path string is matched against the result.      *)
(***************************************************************************)

\* The sequences of at most n elements of S.
SeqsUpTo(S, n) == UNION {[1..k -> S] : k \in 0..n}

\* The string "/s1/s2/.../sn" ("" for no segment).
RECURSIVE Join(_)
Join(parts) ==
    IF parts = <<>> THEN <<>> ELSE <<"/">> \o Head(parts) \o Join(Tail(parts))

\* Pattern segments as they are written: a literal, two parameters, the
\* wildcard.
PatternParts == {<<"a">>, <<":", "p">>, <<":", "q">>, <<"*">>}

\* Path segments: the literal, the literal in another case, another one.
PathParts == {<<"a">>, <<"A">>, <<"b">>}

\* The pattern strings: "/" followed by the segments joined by "/".
PatternInputs ==
    {[parts |-> ps, text |-> IF ps = <<>> THEN Str_root ELSE Join(ps)] :
        ps \in SeqsUpTo(PatternParts, MaxSegments)}

\* The path strings, without and with a trailing "/".
PathInputs ==
    {[parts |-> ps, text |-> Join(ps) \o tail] :
        ps \in SeqsUpTo(PathParts, MaxSegments), tail \in {<<>>, <<"/">>}}

MatcherInit ==
    /\ ServerInit
    /\ router = ServerRouter
    /\ router_call = <<>>
    /\ registered = <<>>
    /\ held = <<>>
    /\ ParserIdle
    /\ builder = ServiceBuilder_new(service_fn(RouteHandler(1)))
    /\ built = <<>>
    /\ events = <<>>
    /\ outcome = <<>>
    /\ polled = <<>>
    /\ pattern_in \in PatternInputs
    /\ path_in \in PathInputs
    /\ compiled = <<>>
    /\ match_result = <<>>
    /\ res = <<>>
    /\ bytes_out = <<>>

\* RoutePattern::new(pattern)
Compile ==
    /\ compiled = <<>>
    /\ compiled' = <<RoutePattern_new(pattern_in.text)>>
    /\ UNCHANGED <<pattern_in, path_in, match_result, server_vars, router_vars,
                   service_vars, response_vars, parser_vars>>

\* pattern.matches(path)
Match ==
    /\ compiled # <<>>
    /\ match_result = <<>>
    /\ match_result' = <<matches(compiled[1], path_in.text)>>
    /\ UNCHANGED <<pattern_in, path_in, compiled, server_vars, router_vars,
                   service_vars, response_vars, parser_vars>>

MatcherNext ==
    \/ Compile
    \/ Match

SpecMatcher == MatcherInit /\ [][MatcherNext]_vars

(***************************************************************************)
(* A response on its own: a handler creates it and sets its body and its   *)
(* content type, the CORS middleware adds its headers, and the worker      *)
(* serializes it, once.                                                    *)
(***************************************************************************)

\* Bodies a handler sets: none, one byte, two with more than nine bytes.
Bodies == {<<>>, <<"1">>, BadRequestBody, NotFoundBody}

ContentTypes == {Str_text_html, Str_text_plain}

\* The header names of the model, in one fixed order.
HeaderNames ==
    <<Str_Server, Str_Date, Str_Content_Type, Str_Content_Length,
      Str_Allow_Origin, Str_Allow_Methods, Str_Allow_Headers>>

Reverse(s) == [i \in 1..Len(s) |-> s[Len(s) + 1 - i]]

Rotate(s, k) == SubSeq(s, k + 1, Len(s)) \o SubSeq(s, 1, k)

\* Orders in which the map's entries may be met: the rotations of the
\* fixed order of its keys and of that order reversed.
IterationOrders(headers) ==
    LET keys == SelectSeq(HeaderNames, LAMBDA k : k \in DOMAIN headers) IN
    {Rotate(keys, k) : k \in 0..(Len(keys) - 1)}
    \cup {Rotate(Reverse(keys), k) : k \in 0..(Len(keys) - 1)}

ResponseInit ==
    /\ ServerInit
    /\ router = ServerRouter
    /\ router_call = <<>>
    /\ registered = <<>>
    /\ held = <<>>
    /\ ParserIdle
    /\ builder = ServiceBuilder_new(service_fn(RouteHandler(1)))
    /\ built = <<>>
    /\ events = <<>>
    /\ outcome = <<>>
    /\ polled = <<>>
    /\ pattern_in = [parts |-> <<>>, text |-> <<>>]
    /\ path_in = [parts |-> <<>>, text |-> <<>>]
    /\ compiled = <<>>
    /\ match_result = <<>>
    /\ \E status_code \in StatusCodes : res = <<Response_new(status_code)>>
    /\ bytes_out = <<>>

\* response.set_body(body)
SetBody(body) ==
    /\ bytes_out = <<>>
    /\ res' = <<set_body(res[1], body)>>
    /\ UNCHANGED <<bytes_out, server_vars, router_vars, service_vars, matcher_vars, parser_vars>>

\* response.set_content_type(content_type)
SetContentType(content_type) ==
    /\ bytes_out = <<>>
    /\ res' = <<set_content_type(res[1], content_type)>>
    /\ UNCHANGED <<bytes_out, server_vars, router_vars, service_vars, matcher_vars, parser_vars>>

\* The response passes through a CorsMiddleware.
Cors ==
    /\ bytes_out = <<>>
    /\ res' = <<cors_headers(res[1])>>
    /\ UNCHANGED <<bytes_out, server_vars, router_vars, service_vars, matcher_vars, parser_vars>>

\* response.to_bytes(), for stream.write_all
Serialize ==
    /\ bytes_out = <<>>
    /\ \E order \in IterationOrders(res[1].headers) :
          bytes_out' = <<to_bytes(res[1], order)>>
    /\ UNCHANGED <<res, server_vars, router_vars, service_vars, matcher_vars, parser_vars>>

ResponseNext ==
    \/ \E body \in Bodies : SetBody(body)
    \/ \E content_type \in ContentTypes : SetContentType(content_type)
    \/ Cors
    \/ Serialize

SpecResponse == ResponseInit /\ [][ResponseNext]_vars

(***************************************************************************)
(* Properties of the router (checked under SpecRouter).                    *)
(***************************************************************************)

\* Route i accepts the request: its method filter is absent or equal to the
\* request's method, and its pattern matches the request's path.
Eligible(rt, req) ==
    /\ rt.method \in {NoMethod, req.method}
    /\ matches(rt.pattern, req.path).ok

\* The handlers the latest call invoked, in order.
InvokedHandlers == [k \in 1..Len(router_call[1].invoked) |-> router_call[1].invoked[k].handler]

\* C1: Router::handle invokes the handler of the earliest-registered route
\* whose method filter accepts the request and whose pattern matches its
\* path, and the handler of no other route, also when later routes match.
C1_FirstMatchWins ==
    router_call # <<>> =>
        LET req == router_call[1].request
            routes == router.routes
        IN  \A i \in 1..Len(routes) :
                (Eligible(routes[i], req)
                 /\ \A j \in 1..(i - 1) : ~Eligible(routes[j], req))
                => InvokedHandlers = <<routes[i].handler>>

\* C1 witness: the first route is not eligible, the second and the third
\* both are, and the second one's handler was invoked.
C1_Witness ==
    /\ router_call # <<>>
    /\ Len(router.routes) = 3
    /\ ~Eligible(router.routes[1], router_call[1].request)
    /\ Eligible(router.routes[2], router_call[1].request)
    /\ Eligible(router.routes[3], router_call[1].request)
    /\ InvokedHandlers = <<router.routes[2].handler>>

\* C3: a route with a method filter is never selected for a request of
\* another method, whatever the path; a route without a filter is selected
\* for a request of any method when its pattern matches and no earlier
\* route takes the request.
C3_MethodFilter ==
    router_call # <<>> =>
        LET req == router_call[1].request
            routes == router.routes
        IN  \A i \in 1..Len(routes) :
                /\ (\E k \in 1..Len(InvokedHandlers) : InvokedHandlers[k] = routes[i].handler)
                   => routes[i].method \in {NoMethod, req.method}
                /\ (/\ routes[i].method = NoMethod
                    /\ matches(routes[i].pattern, req.path).ok
                    /\ \A j \in 1..(i - 1) :
                          \/ routes[j].method \notin {NoMethod, req.method}
                          \/ ~matches(routes[j].pattern, req.path).ok)
                   => InvokedHandlers = <<routes[i].handler>>

\* C3 witness: a PUT request passes over a GET route whose pattern matches
\* its path and is taken by a later route that has no method filter.
C3_Witness ==
    /\ router_call # <<>>
    /\ router_call[1].request.method = "PUT"
    /\ Len(router.routes) >= 2
    /\ router.routes[1].method = "GET"
    /\ matches(router.routes[1].pattern, router_call[1].request.path).ok
    /\ router.routes[2].method = NoMethod
    /\ InvokedHandlers = <<router.routes[2].handler>>

\* C11: when no registered route accepts the request (by method filter and
\* pattern), Router::handle invokes the configured not-found handler exactly
\* once, with the request as it came in (its path parameters untouched),
\* invokes no route handler, and returns that handler's result.
C11_NotFoundFallback ==
    router_call # <<>> =>
        LET req == router_call[1].request
            routes == router.routes
        IN  (\A i \in 1..Len(routes) : ~Eligible(routes[i], req)) =>
                /\ router_call[1].invoked =
                      <<[handler |-> router.not_found_handler, request |-> req]>>
                /\ router_call[1].result =
                      HandlerResult(router.not_found_handler, router_call[1].ok)

\* C11 witness: a request that carries path parameters found no route among
\* the registered ones and went, parameters and all, to a not-found handler
\* that was set by set_not_found_handler.
C11_Witness ==
    /\ router_call # <<>>
    /\ Len(router.routes) >= 2
    /\ \A i \in 1..Len(router.routes) : ~Eligible(router.routes[i], router_call[1].request)
    /\ router.not_found_handler = NotFoundHandler(1)
    /\ router_call[1].request.params = StaleParams
    /\ router_call[1].invoked =
          <<[handler |-> NotFoundHandler(1), request |-> router_call[1].request]>>

\* The latest call found no route and went to the default not-found handler.
DefaultNotFound(rc) ==
    /\ rc # <<>>
    /\ rc[1].invoked[1].handler = DefaultNotFoundHandler

\* C12: with the default not-found handler, a request that no route takes
\* is answered Ok with status 404, Content-Type text/html and the canned
\* body; a further such request, whatever was handled in between, gets the
\* same status, content type and body; and a call leaves the router as it
\* was.
C12_Default404Idempotent ==
    /\ [](DefaultNotFound(router_call) =>
            /\ router_call[1].result.ok
            /\ router_call[1].result.response[1].status_code = 404
            /\ router_call[1].result.response[1].headers[Str_Content_Type] = Str_text_html
            /\ router_call[1].result.response[1].body = NotFoundBody)
    /\ [][/\ router_call' # router_call => router' = router
          /\ (DefaultNotFound(router_call) /\ DefaultNotFound(router_call')) =>
                LET before == router_call[1].result.response[1]
                    after == router_call'[1].result.response[1]
                IN  /\ after.status_code = before.status_code
                    /\ after.headers[Str_Content_Type] = before.headers[Str_Content_Type]
                    /\ after.body = before.body]_vars

\* C12 witness: a router with a route and the default not-found handler
\* answered a request for a path it has no route for with the 404 page.
C12_Witness ==
    /\ DefaultNotFound(router_call)
    /\ Len(router.routes) >= 1
    /\ router_call[1].request.path = Str_z
    /\ router_call[1].result.response[1].status_code = 404
    /\ router_call[1].result.response[1].body = NotFoundBody

\* The route the latest call's request is taken by: the first eligible
\* one, 0 when there is none.
TakenBy ==
    LET req == router_call[1].request
        routes == router.routes
        S == {i \in 1..Len(routes) : Eligible(routes[i], req)}
    IN  IF S = {} THEN 0 ELSE CHOOSE i \in S : \A j \in S : i <= j

\* C18: when a route takes the request, its handler is the only handler
\* invoked and what the handler gives (Ok with its response, or an error) is
\* the router's result, also when the handler fails: no later route and not
\* the not-found handler is tried.
C18_NoFallThrough ==
    (router_call # <<>> /\ TakenBy # 0) =>
        LET h == router.routes[TakenBy].handler IN
        /\ Len(router_call[1].invoked) = 1
        /\ router_call[1].invoked[1].handler = h
        /\ router_call[1].result.by = h
        /\ router_call[1].result.ok = router_call[1].ok
        /\ router_call[1].result.response =
              IF router_call[1].ok THEN <<HandlerResponse(h)>> ELSE <<>>

\* C18 witness: the handler of the first of two routes that accept the
\* request failed, and the error is the router's result.
C18_Witness ==
    /\ router_call # <<>>
    /\ Len(router.routes) >= 2
    /\ Eligible(router.routes[1], router_call[1].request)
    /\ Eligible(router.routes[2], router_call[1].request)
    /\ ~router_call[1].ok
    /\ router_call[1].invoked[1].handler = router.routes[1].handler
    /\ router_call[1].result = [ok |-> FALSE, by |-> router.routes[1].handler, response |-> <<>>]

\* The path parameters `pattern` captures from `path`, read off the strings:
\* patterns of the router are "/x" (none), "/x/*" (none) and "/:id" (the
\* path without its leading "/").
Captured(pattern, path) ==
    IF pattern = RoutePattern_new(Str_id)
    THEN Insert(EmptyMap, <<"i", "d">>, Tail(path))
    ELSE EmptyMap

\* C19: on a route match the handler receives a request whose path
\* parameters are exactly those the pattern captured (what the incoming
\* request carried is gone) and whose method, path, version, headers, body
\* and query parameters are the incoming request's.
C19_ParamsReplaced ==
    (router_call # <<>> /\ TakenBy # 0) =>
        LET req == router_call[1].request
            got == router_call[1].invoked[1].request
        IN  /\ got.params = Captured(router.routes[TakenBy].pattern, req.path)
            /\ got.method = req.method
            /\ got.path = req.path
            /\ got.version = req.version
            /\ got.headers = req.headers
            /\ got.body = req.body
            /\ got.query = req.query

\* C19 witness: a request that came with {id: old}, a header, a body and a
\* query parameter was taken by "/:id" and reached the handler with {id: z}.
C19_Witness ==
    /\ router_call # <<>>
    /\ TakenBy # 0
    /\ router_call[1].request = FullRequest
    /\ router.routes[TakenBy].pattern = RoutePattern_new(Str_id)
    /\ router_call[1].invoked[1].request =
          [FullRequest EXCEPT !.params = Insert(EmptyMap, <<"i", "d">>, <<"z">>)]

(***************************************************************************)
(* Properties of the pattern matcher (checked under SpecMatcher).  They    *)
(* are stated over the segments the pattern and the path were written      *)
(* from.                                                                   *)
(***************************************************************************)

\* The pattern was written without a "*" segment.
WildcardFree(parts) == \A i \in 1..Len(parts) : parts[i] # <<"*">>

\* The segment was written as a parameter, ":name".
IsParamPart(part) == Head(part) = ":"

\* C13: for a pattern without a wildcard segment, matches returns none
\* whenever the path's number of non-empty segments differs from the
\* pattern's number of segments.
C13_CountMismatchIsNone ==
    (/\ match_result # <<>>
     /\ WildcardFree(pattern_in.parts)
     /\ Len(path_in.parts) # Len(pattern_in.parts))
    => ~match_result[1].ok

\* C13 witness: "/a" was matched against "/a/b", a path that starts like
\* the pattern and has one segment more, and the result is none.
C13_Witness ==
    /\ match_result # <<>>
    /\ pattern_in.parts = <<<<"a">>>>
    /\ path_in.parts = <<<<"a">>, <<"b">>>>
    /\ ~match_result[1].ok

\* A wildcard-free pattern was matched against a path with as many
\* segments as the pattern has.
SameCountMatch ==
    /\ match_result # <<>>
    /\ WildcardFree(pattern_in.parts)
    /\ Len(path_in.parts) = Len(pattern_in.parts)

\* Every literal segment of the pattern equals the path segment at its
\* position, character for character.
ExactAgree ==
    \A i \in 1..Len(pattern_in.parts) :
        ~IsParamPart(pattern_in.parts[i]) => pattern_in.parts[i] = path_in.parts[i]

\* The parameter names of the first n pattern segments.
ParamNames(n) ==
    {Tail(pattern_in.parts[i]) : i \in {j \in 1..n : IsParamPart(pattern_in.parts[j])}}

\* C14 as stated: for a wildcard-free pattern and a path with the same
\* number of segments, matches succeeds exactly when every Exact segment
\* equals the path segment at its position, and the map then binds each
\* Param name to the path segment at that Param's position and has no other
\* key.
C14_EveryParamBound ==
    SameCountMatch =>
        /\ match_result[1].ok <=> ExactAgree
        /\ match_result[1].ok =>
              /\ DOMAIN match_result[1].params = ParamNames(Len(pattern_in.parts))
              /\ \A i \in 1..Len(pattern_in.parts) :
                    IsParamPart(pattern_in.parts[i]) =>
                        match_result[1].params[Tail(pattern_in.parts[i])] = path_in.parts[i]

\* C14 as amended: the same, except that a name used by more than one Param
\* segment is bound to the path segment at the position of the last Param
\* of that name (the map holds one value per name).
C14_LastParamBound ==
    SameCountMatch =>
        /\ match_result[1].ok <=> ExactAgree
        /\ match_result[1].ok =>
              /\ DOMAIN match_result[1].params = ParamNames(Len(pattern_in.parts))
              /\ \A i \in 1..Len(pattern_in.parts) :
                    (/\ IsParamPart(pattern_in.parts[i])
                     /\ \A j \in (i + 1)..Len(pattern_in.parts) :
                           pattern_in.parts[j] # pattern_in.parts[i])
                    => match_result[1].params[Tail(pattern_in.parts[i])] = path_in.parts[i]

\* C14 witness: "/a/:p/:q" matched "/a/b/A" and gave {p: b, q: A}.
C14_Witness ==
    /\ SameCountMatch
    /\ pattern_in.parts = <<<<"a">>, <<":", "p">>, <<":", "q">>>>
    /\ path_in.parts = <<<<"a">>, <<"b">>, <<"A">>>>
    /\ match_result[1].ok
    /\ match_result[1].params[<<"p">>] = <<"b">>
    /\ match_result[1].params[<<"q">>] = <<"A">>

\* The pattern was written as k >= 0 segments that are no wildcard,
\* followed by one "*".
TrailingWildcard(parts) ==
    /\ Len(parts) >= 1
    /\ parts[Len(parts)] = <<"*">>
    /\ WildcardFree(SubSeq(parts, 1, Len(parts) - 1))

\* The number k of segments before the trailing wildcard.
Leading == Len(pattern_in.parts) - 1

\* C15: a pattern of k segments followed by a wildcard matches no path
\* that has k segments or fewer: the wildcard needs a segment of its own.
C15_WildcardNeedsSegment ==
    (/\ match_result # <<>>
     /\ TrailingWildcard(pattern_in.parts)
     /\ Len(path_in.parts) <= Leading)
    => ~match_result[1].ok

\* C16: a pattern of k segments followed by a wildcard matches every path
\* whose first k segments match the k leading segments and which has at
\* least one segment more, whatever the further segments are; the map holds
\* the captures of the Param segments before the wildcard and nothing else.
C16_WildcardTakesRest ==
    (/\ match_result # <<>>
     /\ TrailingWildcard(pattern_in.parts)
     /\ Len(path_in.parts) >= Leading + 1
     /\ \A i \in 1..Leading :
           ~IsParamPart(pattern_in.parts[i]) => pattern_in.parts[i] = path_in.parts[i])
    => /\ match_result[1].ok
       /\ DOMAIN match_result[1].params = ParamNames(Leading)
       /\ \A i \in 1..Leading :
             (/\ IsParamPart(pattern_in.parts[i])
              /\ \A j \in (i + 1)..Leading : pattern_in.parts[j] # pattern_in.parts[i])
             => match_result[1].params[Tail(pattern_in.parts[i])] = path_in.parts[i]

\* C16 witness: "/:p/*" matched "/a/b/A" and gave {p: a}.
C16_Witness ==
    /\ match_result # <<>>
    /\ pattern_in.parts = <<<<":", "p">>, <<"*">>>>
    /\ path_in.parts = <<<<"a">>, <<"b">>, <<"A">>>>
    /\ match_result[1] = Some(Insert(EmptyMap, <<"p">>, <<"a">>))

\* C17: a compiled RoutePattern has at most one Wildcard segment, and a
\* Wildcard it has is its last segment.
C17_WildcardOnlyLast ==
    compiled # <<>> =>
        \A i \in 1..Len(compiled[1]) :
            compiled[1][i].kind = "Wildcard" => i = Len(compiled[1])

(***************************************************************************)
(* Properties of responses (checked under SpecResponse).  They are stated  *)
(* over the serialized bytes, read as a client reads them.                 *)
(***************************************************************************)

\* The least element of a non-empty set of numbers.
Least(S) == CHOOSE i \in S : \A j \in S : i <= j

\* Where the first empty line of `bytes` starts (at the CR that ends the
\* line before it), 0 when there is none.
HeadEnd(bytes) ==
    LET S == {i \in 1..(Len(bytes) - 3) : SubSeq(bytes, i, i + 3) = <<CR, LF, CR, LF>>}
    IN  IF S = {} THEN 0 ELSE Least(S)

\* The bytes after the first empty line.
WireBody(bytes) == SubSeq(bytes, HeadEnd(bytes) + 4, Len(bytes))

\* The status line and the header lines, without their line ends: the
\* first line is indexed 1, the others by where they start.
WireHead(bytes) ==
    LET head == SubSeq(bytes, 1, HeadEnd(bytes) - 1)
        ends == {i \in 1..(Len(head) - 1) : head[i] = CR /\ head[i + 1] = LF}
        starts == {1} \cup {i + 2 : i \in ends}
    IN  [p \in starts |->
            SubSeq(head, p, Least({i \in ends : i >= p} \cup {Len(head) + 1}) - 1)]

\* The values the header `name` has among the lines `head`.
WireValues(head, name) ==
    {SubSeq(head[p], Len(name) + 3, Len(head[p])) :
        p \in {q \in (DOMAIN head) \ {1} :
                  /\ Len(head[q]) >= Len(name) + 2
                  /\ SubSeq(head[q], 1, Len(name) + 2) = name \o <<":", " ">>}}

\* The number a string of decimal digits denotes, -1 for any other string.
RECURSIVE ParseDecimal(_)
ParseDecimal(digits) ==
    LET last == digits[Len(digits)]
        value == CASE last = "0" -> 0 [] last = "1" -> 1 [] last = "2" -> 2
                   [] last = "3" -> 3 [] last = "4" -> 4 [] last = "5" -> 5
                   [] last = "6" -> 6 [] last = "7" -> 7 [] last = "8" -> 8
                   [] last = "9" -> 9 [] OTHER -> -1
        front == IF Len(digits) = 1 THEN 0
                 ELSE ParseDecimal(SubSeq(digits, 1, Len(digits) - 1))
    IN  IF digits = <<>> \/ value < 0 \/ front < 0 THEN -1
        ELSE 10 * front + value

\* C20: in the bytes of every serialized response, a Content-Length header
\* that is present carries the length of the body that follows the empty
\* line, whatever set_body and set_content_type calls and CORS insertions
\* came before.
C20_ContentLengthIsBodyLength ==
    bytes_out # <<>> =>
        /\ HeadEnd(bytes_out[1]) # 0
        /\ WireBody(bytes_out[1]) = res[1].body
        /\ \A v \in WireValues(WireHead(bytes_out[1]), Str_Content_Length) :
              ParseDecimal(v) = Len(WireBody(bytes_out[1]))

\* C20 witness: a response whose body was set, its CORS headers added, and
\* which was serialized with "Content-Length: 11" before eleven body bytes.
C20_Witness ==
    /\ bytes_out # <<>>
    /\ Str_Allow_Origin \in DOMAIN res[1].headers
    /\ WireValues(WireHead(bytes_out[1]), Str_Content_Length) = {<<"1", "1">>}
    /\ WireBody(bytes_out[1]) = BadRequestBody

\* The first line of `bytes`, read as a status line: the text before the
\* first space, the text between the first and the second space, and the
\* rest of the line.
StatusLine(bytes) ==
    LET line == WireHead(bytes)[1]
        spaces == {i \in 1..Len(line) : line[i] = " "}
        s1 == IF spaces = {} THEN Len(line) + 1 ELSE Least(spaces)
        later == {i \in spaces : i > s1}
        s2 == IF later = {} THEN Len(line) + 1 ELSE Least(later)
    IN  [version |-> SubSeq(line, 1, s1 - 1),
         code |-> SubSeq(line, s1 + 1, s2 - 1),
         reason |-> SubSeq(line, s2 + 1, Len(line))]

\* C21: the serialized bytes begin with the status line
\* "{version} {numeric-code} {reason-phrase}\r\n"; read back, its second
\* token is the decimal of the response's status code and the rest of the
\* line is that code's reason phrase, for every status code of the
\* enumeration.
C21_StatusLineRoundTrip ==
    bytes_out # <<>> =>
        /\ HeadEnd(bytes_out[1]) # 0
        /\ StatusLine(bytes_out[1]).version = Version_fmt(res[1].version)
        /\ ParseDecimal(StatusLine(bytes_out[1]).code) = res[1].status_code
        /\ StatusLine(bytes_out[1]).reason = reason_phrase(res[1].status_code)
        /\ WireValues(WireHead(bytes_out[1]), Str_Server) = {Str_RustHTTP}

\* C21 witness: a 405 response was serialized and its first line reads
\* "HTTP/1.1 405 Method Not Allowed".
C21_Witness ==
    /\ bytes_out # <<>>
    /\ res[1].status_code = 405
    /\ StatusLine(bytes_out[1]) =
          [version |-> <<"H", "T", "T", "P", "/", "1", ".", "1">>,
           code |-> <<"4", "0", "5">>,
           reason |-> <<"M", "e", "t", "h", "o", "d", " ", "N", "o", "t", " ",
                        "A", "l", "l", "o", "w", "e", "d">>]

(***************************************************************************)
(* Properties of the builder (checked under SpecService).                  *)
(***************************************************************************)

\* Who acts in each event of the latest call, in order.
Who == [k \in 1..Len(events) |-> events[k].who]

ConnView(c) ==
    <<pc[c], wire[c], request_data[c], request[c], mw_index[c], response[c],
      written[c], invoked[c], read_end[c], parsed[c], ret[c]>>

\* The handler calls made for connection c.
HandlerCalls(c) == SelectSeq(invoked[c], LAMBDA e : e.op = "handler")

C5_ConnectionErrorIsSilent ==
    \A c \in Conns :
        read_end[c] \in {"too large", "error"} =>
            /\ pc[c] = "closed"
            /\ ret[c] \in {"Err: Request too large", "Err: Error reading from stream"}
            /\ parsed[c] = "none"
            /\ invoked[c] = <<>>
            /\ written[c] = <<>>

\* C5 witness: a connection was failed as too large.
C5_Witness ==
    \E c \in Conns :
        /\ read_end[c] = "too large"
        /\ ret[c] = "Err: Request too large"
        /\ written[c] = <<>>

\* C6: a step in which one connection's handling fails (an error return or
\* a panic) changes nothing of any other connection and leaves the accept
\* loop running and able to accept the next connection.
C6_FailureIsolated ==
    [][\A c \in Conns :
          (ret[c] = "none" /\ ret'[c] \notin {"none", "Ok"}) =>
              /\ listening'
              /\ accepted' = accepted
              /\ accepted' < MaxConns => pc'[accepted' + 1] = "unaccepted"
              /\ \A d \in Conns \ {c} : ConnView(d)' = ConnView(d)]_vars

\* C6 witness: one connection's worker panicked and another connection was
\* served.
C6_Witness ==
    \E c, d \in Conns :
        /\ ret[c] = "panic"
        /\ ret[d] = "Ok"
        /\ Len(written[d]) = 1
        /\ listening

\* C7: a connection sees at most one response and at most one handler
\* call, and once its worker has ended nothing of it changes any more.
C7_OneExchange ==
    [][\A c \in Conns :
          /\ Len(written'[c]) <= 1
          /\ Len(HandlerCalls(c)') <= 1
          /\ pc[c] = "closed" => ConnView(c)' = ConnView(c)]_vars

\* C7 witness: a connection ended after one handler call and one response.
C7_Witness ==
    \E c \in Conns :
        /\ pc[c] = "closed"
        /\ ret[c] = "Ok"
        /\ Len(HandlerCalls(c)) = 1
        /\ Len(written[c]) = 1

\* C8: when the parser returns an error, the worker writes exactly one
\* response, with status 400, and invokes no middleware and no handler.
C8_ParseErrorGives400 ==
    \A c \in Conns :
        parsed[c] = "Err" =>
            /\ invoked[c] = <<>>
            /\ \/ /\ pc[c] = "write"
                  /\ written[c] = <<>>
                  /\ response[c] = <<BadRequestResponse>>
               \/ /\ pc[c] = "closed"
                  /\ Len(written[c]) = 1
                  /\ written[c][1].response = BadRequestResponse

\* C8 witness: a complete request without a path was answered with 400.
C8_Witness ==
    \E c \in Conns :
        /\ read_end[c] = "terminator"
        /\ parsed[c] = "Err"
        /\ pc[c] = "closed"
        /\ written[c] = <<[response |-> BadRequestResponse, sent |-> TRUE]>>

\* C9: the worker probes poll_ready before it calls the service: every
\* handler call of a connection comes after a poll_ready of that connection.
C9_ProbeBeforeCall ==
    \A c \in Conns :
        \A i \in 1..Len(invoked[c]) :
            invoked[c][i].op = "handler" =>
                \E j \in 1..(i - 1) : invoked[c][j].op = "poll_ready"

\* C10: when the dispatched handler fails, the worker writes one response,
\* with status 500, and ends the connection.
C10_FailureGives500 ==
    \A c \in Conns :
        (pc[c] = "closed" /\ HandlerCalls(c) # <<>> /\ ret[c] \notin {"Ok", "Err: Failed to send response"}) =>
            /\ Len(written[c]) = 1
            /\ written[c][1].response.status_code = 500

\* Connection c has been accepted and its worker has not ended.
InFlight(c) == pc[c] \notin {"unaccepted", "closed"}

\* C22: the accept loop never waits for a worker: whatever the accepted
\* connections are doing, the loop is running and can accept the next
\* connection; and a connection in flight that is setting its timeout,
\* reading, in a middleware, at its handler or writing can take its next
\* step whatever the other connections are doing.  (A worker that is
\* parsing computes a function of its own buffer only.)
C22_AcceptNeverWaits ==
    /\ listening
    /\ accepted < MaxConns => ENABLED Accept(accepted + 1)
    /\ \A c \in Conns :
          (InFlight(c) /\ pc[c] # "parse") => ENABLED WorkerStep(c)

\* C22 witness: connection 2 was accepted and is reading while connection 1
\* is still at its handler.
C22_Witness ==
    /\ accepted >= 2
    /\ pc[1] = "dispatch"
    /\ pc[2] = "read"

\* C23: the router the workers share is, in every state after the listener
\* has started, the router the server was given: its route list and its
\* not-found handler are what they were at startup, whatever the workers
\* have done in whatever order.
C23_RouterNeverChanges ==
    /\ router.routes = ServerRouter.routes
    /\ router.not_found_handler = ServerRouter.not_found_handler

\* C23 witness: two connections have both had a handler called from the
\* shared router, one of them while the other was still open.
C23_Witness ==
    /\ accepted >= 2
    /\ HandlerCalls(1) # <<>>
    /\ HandlerCalls(2) # <<>>
    /\ pc[1] = "write"
    /\ router = ServerRouter


(***************************************************************************)
(* Registration (SpecRegistration).                                        *)
(***************************************************************************)

\* The method filter a registration call asks for: GET for get, POST for
\* post, the argument itself for route.
FilterOf(reg) ==
    IF reg.call = "get" THEN "GET"
    ELSE IF reg.call = "post" THEN "POST"
    ELSE reg.method

\* The route list that the registration calls regs, made in that order,
\* describe.
RoutesOf(regs) ==
    [i \in 1..Len(regs) |-> [pattern |-> RoutePattern_new(regs[i].pattern),
                              method |-> FilterOf(regs[i]),
                              handler |-> regs[i].handler]]

\* C24: after any sequence of registrations the route list is exactly the
\* route/get/post calls in call order, get and post carrying the methods GET
\* and POST; set_not_found_handler replaces the not-found handler and nothing
\* else; and a clone taken before a registration keeps the routes and the
\* not-found handler it had when it was taken.
C24_RoutesAreRegistrations ==
    /\ [](router.routes = RoutesOf(registered))
    /\ [](held # <<>> =>
            held[1].router.routes = RoutesOf(SubSeq(registered, 1, held[1].at)))
    /\ [][SetNotFoundHandler =>
            (/\ router'.routes = router.routes
             /\ router'.not_found_handler = NotFoundHandler(1))]_vars
    /\ [][held # <<>> => held' = held]_vars

\* A clone was taken after the first of three registrations (a route, a get
\* and a post among them) and before the not-found handler was replaced.
C24_Witness ==
    /\ held # <<>>
    /\ held[1].at = 1
    /\ held[1].router.not_found_handler = DefaultNotFoundHandler
    /\ router.not_found_handler = NotFoundHandler(1)
    /\ Len(registered) = 3
    /\ {registered[i].call : i \in 1..3} = {"route", "get", "post"}


(***************************************************************************)
(* Readiness (SpecService).                                                *)
(***************************************************************************)

\* The kinds of the layers around the base of the service s.
RECURSIVE LayerKinds(_)
LayerKinds(s) == IF IsBase(s) THEN {} ELSE {s.kind} \cup LayerKinds(s.inner)

\* The base service of the chain s.
RECURSIVE BaseOf(_)
BaseOf(s) == IF IsBase(s) THEN s ELSE BaseOf(s.inner)

\* C25: every service reports ready at once: a Router or a HandlerService
\* under any number of logging and CORS layers answers poll_ready with
\* ready(ok), whatever was called on it before.
C25_AlwaysReady == polled # <<>> => polled[1] = Poll_Ready_Ok

\* A router under three layers, logging and CORS among them, was polled
\* after a call that failed.
C25_Witness ==
    /\ polled # <<>>
    /\ built # <<>>
    /\ Depth(built[1]) = 3
    /\ LayerKinds(built[1]) = {"LogMiddleware", "CorsMiddleware"}
    /\ BaseOf(built[1]).kind = "Router"
    /\ outcome # <<>>
    /\ ~outcome[1].ok


(***************************************************************************)
(* The parsers (SpecParser) and the worker that calls one (Spec).          *)
(***************************************************************************)

\* The first line of the buffer raw, without its line end.
FirstLine(raw) ==
    LET i == IndexOf(raw, LF) IN
    StripCR(IF i = 0 THEN raw ELSE SubSeq(raw, 1, i - 1))

\* The whitespace-separated tokens of the request line of raw.
RequestLineTokens(raw) == SplitWhitespace(FirstLine(raw))

\* C26: for every buffer in which "\r\n\r\n" does not occur at all, the
\* parser returns a parse error.
C26_NoSeparatorIsError ==
    (parse_out # <<>> /\ ~HasTerminator(raw_in)) =>
        parse_out[1].result.tag = "Err"

\* C27: the parser accepts a request only when its request line has exactly
\* three whitespace-separated tokens, and a request line with fewer than
\* three tokens gives a parse error and no Request.
C27_ExactlyThreeTokens ==
    parse_out # <<>> =>
        LET n == Len(RequestLineTokens(raw_in))
            r == parse_out[1].result
        IN  /\ r.tag = "Ok" => n = 3
            /\ n < 3 => (r.tag = "Err" /\ r.request = <<>>)

\* The nine method names and the Method value of each.
NineMethods ==
    {[name |-> <<"G", "E", "T">>, method |-> "GET"],
     [name |-> <<"P", "O", "S", "T">>, method |-> "POST"],
     [name |-> <<"P", "U", "T">>, method |-> "PUT"],
     [name |-> <<"D", "E", "L", "E", "T", "E">>, method |-> "DELETE"],
     [name |-> <<"H", "E", "A", "D">>, method |-> "HEAD"],
     [name |-> <<"C", "O", "N", "N", "E", "C", "T">>, method |-> "CONNECT"],
     [name |-> <<"O", "P", "T", "I", "O", "N", "S">>, method |-> "OPTIONS"],
     [name |-> <<"T", "R", "A", "C", "E">>, method |-> "TRACE"],
     [name |-> <<"P", "A", "T", "C", "H">>, method |-> "PATCH"]}

\* C28: Method::from gives, for a string that is one of the nine names once
\* it is upper-cased, the Method value of that name, and for every other
\* string it panics with "Invalid method" and returns no value.
C28_MethodFromTable ==
    method_out # <<>> =>
        LET u == to_uppercase(method_out[1].input)
            r == method_out[1].result
        IN  IF \E e \in NineMethods : e.name = u
            THEN /\ ~r.panic
                 /\ \A e \in NineMethods : e.name = u => r.method = e.method
            ELSE /\ r.panic
                 /\ r.method = "Invalid method"

\* Method::from was given "GETS", which starts like a name and is none, and
\* panicked.
C28_Witness ==
    /\ method_out # <<>>
    /\ method_out[1].input = <<"G", "E", "T", "S">>
    /\ method_out[1].result.panic

\* C29: parsing is total: whatever the buffer, Request::parse gives the
\* worker a Request or a parse error, and never ends the worker abnormally.
C29_ParseIsTotal ==
    \A c \in Conns : parsed[c] \in {"none", "Ok", "Err"}

\* C30: the parser splits at the first "\r\n\r\n" only: the body of the
\* Request is all that follows it, later occurrences of "\r\n\r\n" included.
C30_BodyIsAllAfterFirstSeparator ==
    (parse_out # <<>> /\ parse_out[1].result.tag = "Ok" /\ HasTerminator(raw_in)) =>
        parse_out[1].result.request[1].body =
            SubSeq(raw_in, FindTerminator(raw_in, 1) + 4, Len(raw_in))


(***************************************************************************)
(* The query string and the route (SpecTwin).                              *)
(***************************************************************************)

\* C31: the path of a parsed request is the target up to its first "?" and
\* holds no query string, and two requests that differ in their query
\* strings only go to the same handler with the same path parameters.
C31_QueryNeverRoutes ==
    twin_out # <<>> =>
        LET o == twin_out[1] IN
        /\ \A p \in {o.a, o.b} :
              p.tag = "Ok" =>
                  /\ p.request[1].path = twin_in.path
                  /\ \A i \in 1..Len(p.request[1].path) : p.request[1].path[i] # "?"
        /\ o.handled # <<>> =>
              /\ Len(o.handled[1].invoked) = 1
              /\ Len(o.handled[2].invoked) = 1
              /\ o.handled[1].invoked[1].handler = o.handled[2].invoked[1].handler
              /\ o.handled[1].invoked[1].request.params =
                    o.handled[2].invoked[1].request.params
              /\ o.handled[1].result.by = o.handled[2].result.by

\* POST /z and POST /z?id=9 were both handled by the route /:id, with the
\* parameter id bound to z in both.
C31_Witness ==
    /\ twin_out # <<>>
    /\ twin_in.method = <<"P", "O", "S", "T">>
    /\ twin_in.path = <<"/", "z">>
    /\ twin_in.a = TwinRaw(twin_in.method, twin_in.path, <<>>)
    /\ twin_in.b = TwinRaw(twin_in.method, twin_in.path, <<"?", "i", "d", "=", "9">>)
    /\ twin_out[1].handled # <<>>
    /\ twin_out[1].handled[2].invoked[1].handler = RouteHandler(2)
    /\ twin_out[1].handled[2].invoked[1].request.params # EmptyMap
    /\ twin_out[1].b.request[1].query # EmptyMap


(***************************************************************************)
(* The end of every connection (SpecLive).                                 *)
(***************************************************************************)

\* C32: every accepted connection reaches its end in the end, a response
\* written and the stream closed or the connection given up with an error:
\* each turn of the read loop ends the loop or makes the accumulated buffer
\* longer, and the buffer stays under the cap while the loop goes on.
C32_EveryConnectionEnds ==
    /\ \A c \in Conns : (pc[c] # "unaccepted") ~> (pc[c] = "closed")
    /\ [](\A c \in Conns : pc[c] = "read" => Len(request_data[c]) < MaxRequestSize)
    /\ [][\A c \in Conns :
            (Read(c) /\ pc'[c] = "read") =>
                Len(request_data'[c]) > Len(request_data[c])]_vars

\* A peer that never stops sending was cut off at the cap while another
\* connection was answered.
C32_Witness ==
    \E c, d \in Conns :
        /\ pc[c] = "closed"
        /\ read_end[c] = "too large"
        /\ ret[c] = "Err: Request too large"
        /\ pc[d] = "closed"
        /\ Len(written[d]) = 1


(***************************************************************************)
(* The size of the accumulated buffer (Spec).                              *)
(***************************************************************************)

\* The buffer the worker of c would hold after a read of n bytes.
AfterRead(c, n) == request_data[c] \o SubSeq(wire[c], 1, n)

\* The sizes a read of connection c can have.
ReadSizes(c) == 1..Min(BufferSize, Len(wire[c]))

\* C33: the accumulated buffer is always shorter than the cap plus one
\* chunk; a connection is given up as too large only when, after a read,
\* the buffer holds no end of headers and has reached the cap; and a buffer
\* in which the end of headers is found after a read goes to the parser,
\* also when that read took it to the cap or past it.
C33_BufferUnderCapPlusChunk ==
    /\ [](\A c \in Conns : Len(request_data[c]) < MaxRequestSize + BufferSize)
    /\ [][\A c \in Conns :
            read_end'[c] # read_end[c] =>
                /\ read_end'[c] = "too large" =>
                      \E n \in ReadSizes(c) :
                          /\ ~HasTerminator(AfterRead(c, n))
                          /\ Len(AfterRead(c, n)) >= MaxRequestSize
                /\ read_end'[c] = "terminator" =>
                      /\ pc'[c] = "parse"
                      /\ HasTerminator(request_data'[c])]_vars

\* A read found the end of headers and took the buffer to the cap, and the
\* request was parsed and answered.
C33_Witness ==
    \E c \in Conns :
        /\ read_end[c] = "terminator"
        /\ parsed[c] = "Ok"
        /\ pc[c] = "write"
        /\ Len(request_data[c]) >= MaxRequestSize


(***************************************************************************)
(* What the CORS layer changes (SpecService).                              *)
(***************************************************************************)

\* The three headers of the CORS layer and the values it gives them.
CorsValues ==
    Insert(Insert(Insert(EmptyMap, Str_Allow_Origin, Str_star),
                  Str_Allow_Methods, Str_methods),
           Str_Allow_Headers, Str_headers)

\* C34: the CORS layer changes three headers and nothing else: when the
\* service under it succeeds, the response has that service's status,
\* version, body and other headers, and the three Access-Control-Allow
\* headers with the layer's values, whatever the handler had set for them;
\* when the service under it fails, the error comes back as it was and there
\* is no response.
C34_CorsChangesThreeHeaders ==
    (outcome # <<>> /\ built # <<>>) =>
        ("CorsMiddleware" \in LayerKinds(built[1]) =>
            LET inner == CallResult(BaseOf(built[1]), outcome[1].ok)
                out == outcome[1]
            IN  IF inner.ok
                THEN /\ out.ok
                     /\ out.by = inner.by
                     /\ out.response[1].status_code = inner.response[1].status_code
                     /\ out.response[1].version = inner.response[1].version
                     /\ out.response[1].body = inner.response[1].body
                     /\ DOMAIN out.response[1].headers =
                           DOMAIN inner.response[1].headers \cup DOMAIN CorsValues
                     /\ \A k \in DOMAIN out.response[1].headers :
                           out.response[1].headers[k] =
                               IF k \in DOMAIN CorsValues THEN CorsValues[k]
                               ELSE inner.response[1].headers[k]
                ELSE out = inner /\ out.response = <<>>)

\* A handler that sets Access-Control-Allow-Origin itself was called through
\* a CORS layer and a logging layer and succeeded.
C34_Witness ==
    /\ outcome # <<>>
    /\ built # <<>>
    /\ LayerKinds(built[1]) = {"LogMiddleware", "CorsMiddleware"}
    /\ BaseOf(built[1]) = service_fn(RouteHandler(3))
    /\ outcome[1].ok
    /\ outcome[1].response[1].headers[Str_Allow_Origin] = Str_star
    /\ outcome[1].response[1].status_code = 201

====
